---- MODULE Spec2Model ----
(***************************************************************************)
(* Model of the NANDA reputation toolkit: the weighted scoring algorithm   *)
(* and its numeric helpers (reputation/utils/algorithm), the storage       *)
(* adapters (reputation/utils/storage), ReputationClient and NandaServer   *)
(* (nanda/core/server) with its middleware chain and lifecycle hooks.      *)
(*                                                                         *)
(* JavaScript numbers are modelled as exact rationals extended with NaN,   *)
(* +Infinity, -Infinity and undefined, so that a division by zero or a     *)
(* missing field is a value the formulas can see.  Floating-point rounding *)
(* error and overflow of finite doubles are outside the model.             *)
(***************************************************************************)
EXTENDS Integers, Sequences, FiniteSets, TLC

----------------------------------------------------------------------------
(* JavaScript number values *)

Abs(i) == IF i < 0 THEN -i ELSE i

RECURSIVE GCD(_, _)
GCD(a, b) == IF b = 0 THEN a ELSE GCD(b, a % b)

\* the finite number n/d (d # 0), in lowest terms with a positive denominator
Q(n, d) ==
    LET g == GCD(Abs(n), Abs(d))
        s == IF d < 0 THEN -1 ELSE 1
    IN  [k |-> "fin", n |-> (s * n) \div g, d |-> Abs(d) \div g]

N(i) == [k |-> "fin", n |-> i, d |-> 1]
NaN == [k |-> "nan", n |-> 0, d |-> 1]
PInf == [k |-> "inf", n |-> 1, d |-> 1]
NInf == [k |-> "inf", n |-> -1, d |-> 1]
undefined == [k |-> "undef", n |-> 0, d |-> 1]

IsFin(x) == x.k = "fin"
IsNaN(x) == x.k = "nan"
\* -1, 0, 1 for a finite or infinite number
Sign(x) == IF x.n < 0 THEN -1 ELSE IF x.n > 0 THEN 1 ELSE 0

\* ToNumber(undefined) is NaN
ToNum(x) == IF x.k = "undef" THEN NaN ELSE x

\* ToBoolean of a number or undefined: 0, NaN and undefined are falsy
Truthy(x) == x.k = "inf" \/ (x.k = "fin" /\ x.n # 0)

\* a || b
OrElse(a, b) == IF Truthy(a) THEN a ELSE b

JNeg(x0) ==
    LET x == ToNum(x0)
    IN  IF IsNaN(x) THEN NaN ELSE [x EXCEPT !.n = -x.n]

JAdd(x0, y0) ==
    LET x == ToNum(x0)
        y == ToNum(y0)
    IN  IF IsNaN(x) \/ IsNaN(y) THEN NaN
        ELSE IF x.k = "inf" /\ y.k = "inf" THEN (IF x.n = y.n THEN x ELSE NaN)
        ELSE IF x.k = "inf" THEN x
        ELSE IF y.k = "inf" THEN y
        ELSE Q(x.n * y.d + y.n * x.d, x.d * y.d)

JSub(x, y) == JAdd(x, JNeg(y))

JMul(x0, y0) ==
    LET x == ToNum(x0)
        y == ToNum(y0)
    IN  IF IsNaN(x) \/ IsNaN(y) THEN NaN
        ELSE IF x.k = "inf" \/ y.k = "inf"
             THEN (IF Sign(x) * Sign(y) = 0 THEN NaN
                   ELSE IF Sign(x) * Sign(y) > 0 THEN PInf ELSE NInf)
        ELSE Q(x.n * y.n, x.d * y.d)

\* x / y with a divisor of +0 when y is zero
JDiv(x0, y0) ==
    LET x == ToNum(x0)
        y == ToNum(y0)
    IN  IF IsNaN(x) \/ IsNaN(y) THEN NaN
        ELSE IF x.k = "inf" /\ y.k = "inf" THEN NaN
        ELSE IF x.k = "inf" THEN (IF Sign(y) < 0 THEN JNeg(x) ELSE x)
        ELSE IF y.k = "inf" THEN N(0)
        ELSE IF y.n = 0
             THEN (IF x.n = 0 THEN NaN ELSE IF x.n > 0 THEN PInf ELSE NInf)
        ELSE Q(x.n * y.d, x.d * y.n)

\* x < y and x <= y; every comparison with NaN is false
JLt(x0, y0) ==
    LET x == ToNum(x0)
        y == ToNum(y0)
    IN  /\ ~IsNaN(x)
        /\ ~IsNaN(y)
        /\ IF x.k = "inf" /\ y.k = "inf" THEN x.n < y.n
           ELSE IF x.k = "inf" THEN x.n < 0
           ELSE IF y.k = "inf" THEN y.n > 0
           ELSE x.n * y.d < y.n * x.d

JLe(x, y) == JLt(x, y) \/ (~IsNaN(ToNum(x)) /\ ToNum(x) = ToNum(y))

\* Math.min and Math.max of two arguments
MathMin(x0, y0) ==
    LET x == ToNum(x0)
        y == ToNum(y0)
    IN  IF IsNaN(x) \/ IsNaN(y) THEN NaN ELSE IF JLt(y, x) THEN y ELSE x

MathMax(x0, y0) ==
    LET x == ToNum(x0)
        y == ToNum(y0)
    IN  IF IsNaN(x) \/ IsNaN(y) THEN NaN ELSE IF JLt(x, y) THEN y ELSE x

\* Math.round: the nearest integer, a tie going towards +Infinity
MathRound(x0) ==
    LET x == ToNum(x0)
    IN  IF x.k # "fin" THEN x ELSE N((2 * x.n + x.d) \div (2 * x.d))

\* a finite number within [lo, hi] (integers)
InRange(x, lo, hi) == IsFin(x) /\ JLe(N(lo), x) /\ JLe(x, N(hi))

----------------------------------------------------------------------------
(* reputation/utils/algorithm: the weighted scoring algorithm *)

\* A category object, or a field, that is absent from the bundle is
\* `undefined`.  An absent verification level is modelled by the empty
\* string, which `||` and `switch` treat exactly as they treat undefined.
noLevel == ""

HALF == Q(1, 2)
W02 == Q(1, 5)
W03 == Q(3, 10)
W04 == Q(2, 5)
W01 == Q(1, 10)

calculatePerformanceScore(components) ==
    LET metrics == components.performanceMetrics
    IN  IF metrics = undefined THEN N(50)
        ELSE
          LET uptimeScore == OrElse(metrics.uptime_percentage, N(0))
              responseTimeScore ==
                  IF Truthy(metrics.avg_response_time_ms)
                  THEN MathMax(N(0), JSub(N(100), JDiv(metrics.avg_response_time_ms, N(10))))
                  ELSE N(50)
              errorRateScore ==
                  IF metrics.error_rate # undefined
                  THEN MathMax(N(0), JSub(N(100), JMul(metrics.error_rate, N(100))))
                  ELSE N(50)
          IN  JAdd(JAdd(JMul(uptimeScore, HALF), JMul(responseTimeScore, W03)),
                   JMul(errorRateScore, W02))

calculateVerificationScore(components) ==
    LET details == components.verificationDetails
    IN  IF details = undefined THEN N(0)
        ELSE CASE details.level = "gold" -> N(100)
               [] details.level = "silver" -> N(75)
               [] details.level = "bronze" -> N(50)
               [] OTHER -> N(0)

\* mutant of calculateFeedbackScore: the rating is read on a 0-5 scale
calculateFeedbackScore_fiveScale(components) ==
    LET metrics == components.feedbackMetrics
    IN  IF metrics = undefined \/ ~Truthy(metrics.average_rating) THEN N(50)
        ELSE JMul(JDiv(metrics.average_rating, N(5)), N(100))

calculateFeedbackScore(components) ==
    LET metrics == components.feedbackMetrics
    IN  IF metrics = undefined \/ ~Truthy(metrics.average_rating) THEN N(50)
        ELSE JMul(JDiv(JSub(metrics.average_rating, N(1)), N(4)), N(100))

\* mutant of calculateUsageScore: an absent category scores 0, not 50
calculateUsageScore_zeroDefault(components) ==
    LET metrics == components.usageMetrics
    IN  IF metrics = undefined THEN N(0)
        ELSE
          LET requestScore ==
                  IF Truthy(metrics.total_requests)
                  THEN MathMin(N(100), JMul(JDiv(metrics.total_requests, N(1000)), N(100)))
                  ELSE N(0)
              diversityScore ==
                  IF Truthy(metrics.unique_clients)
                  THEN MathMin(N(100), JMul(JDiv(metrics.unique_clients, N(100)), N(100)))
                  ELSE N(0)
              longevityScore ==
                  IF Truthy(metrics.longevity_days)
                  THEN MathMin(N(100), JMul(JDiv(metrics.longevity_days, N(30)), N(100)))
                  ELSE N(0)
          IN  JAdd(JAdd(JMul(requestScore, W03), JMul(diversityScore, W04)),
                   JMul(longevityScore, W03))

\* mutant of calculateUsageScore: a missing sub-metric contributes 50
calculateUsageScore_missingFifty(components) ==
    LET metrics == components.usageMetrics
    IN  IF metrics = undefined THEN N(50)
        ELSE
          LET requestScore ==
                  IF Truthy(metrics.total_requests)
                  THEN MathMin(N(100), JMul(JDiv(metrics.total_requests, N(1000)), N(100)))
                  ELSE N(50)
              diversityScore ==
                  IF Truthy(metrics.unique_clients)
                  THEN MathMin(N(100), JMul(JDiv(metrics.unique_clients, N(100)), N(100)))
                  ELSE N(50)
              longevityScore ==
                  IF Truthy(metrics.longevity_days)
                  THEN MathMin(N(100), JMul(JDiv(metrics.longevity_days, N(30)), N(100)))
                  ELSE N(50)
          IN  JAdd(JAdd(JMul(requestScore, W03), JMul(diversityScore, W04)),
                   JMul(longevityScore, W03))

calculateUsageScore(components) ==
    LET metrics == components.usageMetrics
    IN  IF metrics = undefined THEN N(50)
        ELSE
          LET requestScore ==
                  IF Truthy(metrics.total_requests)
                  THEN MathMin(N(100), JMul(JDiv(metrics.total_requests, N(1000)), N(100)))
                  ELSE N(0)
              diversityScore ==
                  IF Truthy(metrics.unique_clients)
                  THEN MathMin(N(100), JMul(JDiv(metrics.unique_clients, N(100)), N(100)))
                  ELSE N(0)
              longevityScore ==
                  IF Truthy(metrics.longevity_days)
                  THEN MathMin(N(100), JMul(JDiv(metrics.longevity_days, N(30)), N(100)))
                  ELSE N(0)
          IN  JAdd(JAdd(JMul(requestScore, W03), JMul(diversityScore, W04)),
                   JMul(longevityScore, W03))

\* feedbackMetrics?.rating_count || 0
ratingCountOrZero(components) ==
    IF components.feedbackMetrics = undefined THEN N(0)
    ELSE OrElse(components.feedbackMetrics.rating_count, N(0))

calculateConfidence(dataComponents, config) ==
    LET reviewCount == ratingCountOrZero(dataComponents)
        sample_size == MathMin(N(100), JMul(JDiv(reviewCount, config.idealReviews), N(100)))
        verificationLevel ==
            IF dataComponents.verificationDetails = undefined THEN "none"
            ELSE IF dataComponents.verificationDetails.level = noLevel THEN "none"
            ELSE dataComponents.verificationDetails.level
        verification_level ==
            CASE verificationLevel = "gold" -> N(100)
              [] verificationLevel = "silver" -> N(75)
              [] verificationLevel = "bronze" -> N(50)
              [] OTHER -> N(0)
        factors == [sample_size |-> sample_size,
                    consistency |-> N(70),
                    diversity |-> N(60),
                    recency |-> N(80),
                    verification_level |-> verification_level]
        \* the forEach over Object.entries(factors), in insertion order
        overallConfidence ==
            JAdd(JAdd(JAdd(JAdd(JAdd(N(0), JMul(factors.sample_size, W03)),
                                JMul(factors.consistency, W02)),
                           JMul(factors.diversity, W01)),
                      JMul(factors.recency, W02)),
                 JMul(factors.verification_level, W02))
        weightSum == JAdd(JAdd(JAdd(JAdd(JAdd(N(0), W03), W02), W01), W02), W02)
        level == IF JLt(N(0), weightSum) THEN JDiv(overallConfidence, weightSum) ELSE N(0)
    IN  [level |-> MathRound(level), factors |-> factors]

\* mutant of normalizedScore: only the upper bound is applied
normalizedScore_upperOnly(weightedScore) == MathMin(N(100), weightedScore)

\* "Normalize to ensure 0-100 range"
normalizedScore(weightedScore) == MathMin(N(100), MathMax(N(0), weightedScore))

\* mutant of calculateScore: the overall score decays with the time of the
\* call, one point per millisecond
calculateScore_decayed(config, serverId, components, now) ==
    LET performanceScore == calculatePerformanceScore(components)
        verificationScore == calculateVerificationScore(components)
        feedbackScore == calculateFeedbackScore(components)
        usageScore == calculateUsageScore(components)
        weightedScore ==
            JAdd(JAdd(JAdd(JMul(performanceScore, config.weights.performance),
                           JMul(verificationScore, config.weights.verification)),
                      JMul(feedbackScore, config.weights.feedback)),
                 JMul(usageScore, config.weights.usage))
        confidence ==
            calculateConfidence(components,
                [minReviews |-> config.minimumReviews,
                 idealReviews |-> JMul(config.minimumReviews, N(5)),
                 minAge |-> N(7),
                 idealAge |-> N(30),
                 verificationImportance |-> W02])
    IN  [serverId |-> serverId,
         overallScore |-> MathRound(JSub(normalizedScore(weightedScore), N(now))),
         categories |-> [performance |-> MathRound(performanceScore),
                         verification |-> MathRound(verificationScore),
                         feedback |-> MathRound(feedbackScore),
                         usage |-> MathRound(usageScore)],
         confidence |-> confidence,
         lastUpdated |-> now,
         dataPoints |-> ratingCountOrZero(components),
         algorithm |-> "weighted-score-v1"]

\* mutant of calculateScore: the weights are applied to the rounded category
\* scores
calculateScore_fromRounded(config, serverId, components, now) ==
    LET performanceScore == MathRound(calculatePerformanceScore(components))
        verificationScore == MathRound(calculateVerificationScore(components))
        feedbackScore == MathRound(calculateFeedbackScore(components))
        usageScore == MathRound(calculateUsageScore(components))
        weightedScore ==
            JAdd(JAdd(JAdd(JMul(performanceScore, config.weights.performance),
                           JMul(verificationScore, config.weights.verification)),
                      JMul(feedbackScore, config.weights.feedback)),
                 JMul(usageScore, config.weights.usage))
        confidence ==
            calculateConfidence(components,
                [minReviews |-> config.minimumReviews,
                 idealReviews |-> JMul(config.minimumReviews, N(5)),
                 minAge |-> N(7),
                 idealAge |-> N(30),
                 verificationImportance |-> W02])
    IN  [serverId |-> serverId,
         overallScore |-> MathRound(normalizedScore(weightedScore)),
         categories |-> [performance |-> performanceScore,
                         verification |-> verificationScore,
                         feedback |-> feedbackScore,
                         usage |-> usageScore],
         confidence |-> confidence,
         lastUpdated |-> now,
         dataPoints |-> ratingCountOrZero(components),
         algorithm |-> "weighted-score-v1"]

\* the calculateScore of the algorithm createWeightedAlgorithm(config) returns,
\* called when the clock reads `now`
calculateScore(config, serverId, components, now) ==
    LET performanceScore == calculatePerformanceScore(components)
        verificationScore == calculateVerificationScore(components)
        feedbackScore == calculateFeedbackScore(components)
        usageScore == calculateUsageScore(components)
        weightedScore ==
            JAdd(JAdd(JAdd(JMul(performanceScore, config.weights.performance),
                           JMul(verificationScore, config.weights.verification)),
                      JMul(feedbackScore, config.weights.feedback)),
                 JMul(usageScore, config.weights.usage))
        confidence ==
            calculateConfidence(components,
                [minReviews |-> config.minimumReviews,
                 idealReviews |-> JMul(config.minimumReviews, N(5)),
                 minAge |-> N(7),
                 idealAge |-> N(30),
                 verificationImportance |-> W02])
    IN  [serverId |-> serverId,
         overallScore |-> MathRound(normalizedScore(weightedScore)),
         categories |-> [performance |-> MathRound(performanceScore),
                         verification |-> MathRound(verificationScore),
                         feedback |-> MathRound(feedbackScore),
                         usage |-> MathRound(usageScore)],
         confidence |-> confidence,
         lastUpdated |-> now,
         dataPoints |-> ratingCountOrZero(components),
         algorithm |-> "weighted-score-v1"]

----------------------------------------------------------------------------
(* reputation/utils/algorithm: applyTimeDecay, normalizeScore, detectOutliers *)

RECURSIVE IntPow(_, _)
IntPow(b, e) == IF e = 0 THEN 1 ELSE b * IntPow(b, e - 1)

\* Math.abs
MathAbs(x0) ==
    LET x == ToNum(x0)
    IN  IF IsNaN(x) THEN NaN ELSE [x EXCEPT !.n = Abs(x.n)]

\* The powers of 0.5 are irrational for most exponents.  A decayed value is
\* kept exactly as c * 2^(-rn/rd), c a number and 0 <= rn/rd < 1 in lowest
\* terms: the whole part of the exponent is folded into c, the fractional
\* part is kept as the root.
Scaled(c, rn, rd) ==
    IF IsFin(c) /\ c.n # 0
    THEN [c |-> c, rn |-> rn \div GCD(rn, rd), rd |-> rd \div GCD(rn, rd)]
    ELSE [c |-> c, rn |-> 0, rd |-> 1]

Plain(c) == Scaled(c, 0, 1)

\* Math.pow(0.5, x)
MathPowHalf(x0) ==
    LET x == ToNum(x0)
    IN  IF IsNaN(x) THEN Plain(NaN)
        ELSE IF x.k = "inf" THEN (IF x.n > 0 THEN Plain(N(0)) ELSE Plain(PInf))
        ELSE LET f == x.n \div x.d
                 whole == IF f >= 0 THEN Q(1, IntPow(2, f)) ELSE N(IntPow(2, -f))
             IN  Scaled(whole, x.n - f * x.d, x.d)

\* value * p, p a power of 0.5
MulScaled(value, p) == Scaled(JMul(value, p.c), p.rn, p.rd)

\* a < b for two decayed values: with different roots the two sides are
\* raised to the power that makes both exponents whole
ScaledLt(a, b) ==
    IF (a.rn = b.rn /\ a.rd = b.rd) \/ ~IsFin(a.c) \/ ~IsFin(b.c) THEN JLt(a.c, b.c)
    ELSE IF Sign(a.c) # Sign(b.c) THEN Sign(a.c) < Sign(b.c)
    ELSE LET L == (a.rd * b.rd) \div GCD(a.rd, b.rd)
             \* |a| / |b| = (u/w) * 2^(-P/L)
             P == a.rn * (L \div a.rd) - b.rn * (L \div b.rd)
             ratio == JDiv(MathAbs(a.c), MathAbs(b.c))
             u == IntPow(ratio.n, L) * (IF P < 0 THEN IntPow(2, -P) ELSE 1)
             w == IntPow(ratio.d, L) * (IF P > 0 THEN IntPow(2, P) ELSE 1)
         IN  IF Sign(a.c) > 0 THEN u < w ELSE w < u

\* The clock and the timestamps of applyTimeDecay count ticks of 12 hours:
\* getTime() is 43 200 000 times the count, and 1000 * 60 * 60 * 24 ms are
\* two ticks.
ticksPerDay == 2

\* mutant of applyTimeDecay: the half-life is divided by the age
applyTimeDecay_inverted(value, timestamp, halfLifeDays, now) ==
    LET ageTicks == JSub(N(now), N(timestamp))
        ageDays == JDiv(ageTicks, N(ticksPerDay))
    IN  MulScaled(value, MathPowHalf(JDiv(halfLifeDays, ageDays)))

\* applyTimeDecay(value, timestamp, halfLifeDays), called when the clock
\* reads `now`
applyTimeDecay(value, timestamp, halfLifeDays, now) ==
    LET ageTicks == JSub(N(now), N(timestamp))
        ageDays == JDiv(ageTicks, N(ticksPerDay))
    IN  MulScaled(value, MathPowHalf(JDiv(ageDays, halfLifeDays)))

\* mutant of normalizeScore: the value is not clamped to the range
normalizeScore_unclamped(value, min, max) ==
    JMul(JDiv(JSub(value, min), JSub(max, min)), N(100))

normalizeScore(value, min, max) ==
    LET clampedValue == MathMax(min, MathMin(max, value))
    IN  JMul(JDiv(JSub(clampedValue, min), JSub(max, min)), N(100))

\* values.reduce((sum, val) => sum + val, 0)
RECURSIVE Sum(_)
Sum(values) ==
    IF values = <<>> THEN N(0)
    ELSE JAdd(Sum(SubSeq(values, 1, Len(values) - 1)), values[Len(values)])

\* the parameter default zScoreThreshold = 2.5
defaultZScoreThreshold == Q(5, 2)

\* mutant of variance: the sample variance, dividing by N - 1
variance_sample(squaredDiffs) == JDiv(Sum(squaredDiffs), N(Len(squaredDiffs) - 1))

variance(squaredDiffs) == JDiv(Sum(squaredDiffs), N(Len(squaredDiffs)))

\* mutant of zScoreExceeds: a z-score that is NaN counts as an outlier
zScoreExceeds_unlessBelow(val, mean, var, zScoreThreshold) ==
    LET diff == JSub(val, mean)
    IN  IF ~IsFin(var) \/ var.n = 0
        THEN ~JLe(MathAbs(JDiv(diff, var)), zScoreThreshold)
        ELSE IF JLt(zScoreThreshold, N(0)) THEN TRUE
        ELSE ~JLe(JMul(diff, diff), JMul(JMul(zScoreThreshold, zScoreThreshold), var))

\* Math.abs((val - mean) / stdDev) > zScoreThreshold, stdDev being
\* Math.sqrt(var).  The root of 0, of Infinity and of NaN is the number
\* itself; for every other variance the root is irrational in general and
\* the comparison is made on the squares.
zScoreExceeds(val, mean, var, zScoreThreshold) ==
    LET diff == JSub(val, mean)
    IN  IF ~IsFin(var) \/ var.n = 0
        THEN JLt(zScoreThreshold, MathAbs(JDiv(diff, var)))
        ELSE IF JLt(zScoreThreshold, N(0)) THEN TRUE
        ELSE JLt(JMul(JMul(zScoreThreshold, zScoreThreshold), var), JMul(diff, diff))

\* detectOutliers(values, zScoreThreshold): the indices pushed, counted from 0
detectOutliers(values, zScoreThreshold0) ==
    LET zScoreThreshold ==
            IF zScoreThreshold0 = undefined THEN defaultZScoreThreshold ELSE zScoreThreshold0
    IN  IF Len(values) < 2 THEN <<>>
        ELSE
          LET mean == JDiv(Sum(values), N(Len(values)))
              squaredDiffs ==
                  [i \in 1..Len(values) |->
                      JMul(JSub(values[i], mean), JSub(values[i], mean))]
              var == variance(squaredDiffs)
              indices == [i \in 1..Len(values) |-> i - 1]
              isOutlier(index) == zScoreExceeds(values[index + 1], mean, var, zScoreThreshold)
          IN  SelectSeq(indices, isOutlier)

----------------------------------------------------------------------------
(* State *)

VARIABLES
    components,   \* the metrics bundle handed to calculateScore
    config,       \* the configuration handed to createWeightedAlgorithm
    score,        \* the record calculateScore returned, or undefined before the call
    rescore,      \* the record a second, identical call returned later, or undefined
    helperCall,   \* a call of applyTimeDecay, normalizeScore or detectOutliers:
                  \* its arguments and what it returned
    helperRecall, \* a second call of the same helper with another timestamp or value
    adapter,      \* the class of the storage object: "local" or "browser"
    heap,         \* the score objects created so far; a reference is an index
    storage,      \* LocalReputationStorage.storage
    history,      \* LocalReputationStorage.history
    localStorage, \* the browser's localStorage, parsed
    saved,        \* per subject, the number of scores the storage driver saved
    saveLog,      \* the saves LocalReputationStorage completed, in order: the key,
                  \* the object, its fields at that time, who saved it and how
                  \* many other calculateReputationScore calls were in flight
    ret,          \* the last storage read and what it returned
    algorithms,   \* ReputationClient.algorithms
    requestedIds, \* the ids the calling code gave, in the configuration passed to
                  \* createWeightedAlgorithm, to the algorithms it registered
    queue,        \* the microtask queue: the continuations of the calls in flight
    clock,        \* the wall clock new Date() reads
    outcome,      \* how the last awaited calculateReputationScore call ended
    app,          \* NandaServer.app: the layers of the Express application, in the
                  \* order they were added; empty before createServer
    capabilities, \* NandaServer.capabilities
    plugins,      \* NandaServer.plugins
    routers,      \* NandaServer.routers: per mount path, the router and its routes
    response,     \* the answer to the last request sent to the application
    serverConfig, \* NandaServer.config
    initializeCalls, \* per plugin, how many times its initialize was called
    thrown,       \* the error the call just made on the server threw, if it threw
    hooks,        \* NandaServer.hooks: the names of the hooks that are set
    server,       \* NandaServer.server: "undefined", "Server" or "null"
    listener,     \* the http.Server app.listen returned: "none" before the
                  \* call, then "listening", "closing", "closed"
    calls,        \* per call of start() or stop(), where it stands
    events        \* what happened in the lifecycle so far, in order

scoreVars == <<components, config, score, rescore>>
helperVars == <<helperCall, helperRecall>>
storeVars == <<adapter, heap, storage, history, localStorage, saved, saveLog, ret>>
clientVars == <<algorithms, requestedIds, queue, clock, outcome>>
serverVars ==
    <<app, capabilities, plugins, routers, response, serverConfig, initializeCalls, thrown>>
lifecycleVars == <<hooks, server, listener, calls, events>>
vars == <<components, config, score, rescore, helperCall, helperRecall, adapter, heap, storage, history,
          localStorage, saved, saveLog, ret, algorithms, requestedIds, queue, clock, outcome,
          app, capabilities, plugins, routers, response, serverConfig, initializeCalls, thrown,
          hooks, server, listener, calls, events>>

AlgorithmIds == {"weighted-score-v1", "my-algorithm"}

Servers == {"s1", "s2"}
ScoredServers == {"s1"}

noRead == [op |-> "none"]
noCall == [fn |-> "none"]
noOutcome == [result |-> "none"]

----------------------------------------------------------------------------
(* reputation/utils/storage: the storage adapters *)

null == [k |-> "null", n |-> 0, d |-> 1]

\* Array.prototype.slice(start): a negative start counts from the end, and
\* -0 is 0
Slice(arr, start) ==
    LET len == Len(arr)
        k == IF start < 0 THEN (IF len + start > 0 THEN len + start ELSE 0)
             ELSE (IF start < len THEN start ELSE len)
    IN  SubSeq(arr, k + 1, len)

\* arr.splice(0, deleteCount): what is left of arr
SpliceFront(arr, deleteCount) == SubSeq(arr, deleteCount + 1, Len(arr))

\* the default of the parameter `limit` of getReputationHistory
defaultLimit == 10

\* LocalReputationStorage keeps references to the objects it is given: a
\* reference is the index of the object in the heap, 0 stands for a Map
\* without the key.
LocalStorageInit == [s \in Servers |-> 0]
LocalHistoryInit == [s \in Servers |-> <<>>]

\* mutant of Local_saveReputationScore: an existing current score is kept
Local_saveReputationScore_firstWins(h, st, hist, ref) ==
    LET serverId == h[ref].serverId
    IN  [storage |-> IF st[serverId] = 0 THEN [st EXCEPT ![serverId] = ref] ELSE st,
         history |-> [hist EXCEPT ![serverId] = Append(hist[serverId], ref)]]

\* mutant of Local_saveReputationScore: the history is kept newest first
Local_saveReputationScore_prepend(h, st, hist, ref) ==
    LET serverId == h[ref].serverId
    IN  [storage |-> [st EXCEPT ![serverId] = ref],
         history |-> [hist EXCEPT ![serverId] = <<ref>> \o hist[serverId]]]

\* mutant of Local_saveReputationScore: the history is started afresh
Local_saveReputationScore_overwrite(h, st, hist, ref) ==
    LET serverId == h[ref].serverId
    IN  [storage |-> [st EXCEPT ![serverId] = ref],
         history |-> [hist EXCEPT ![serverId] = <<ref>>]]

\* LocalReputationStorage.saveReputationScore(score), score the object at ref
\* of the heap h: the new values of the fields storage and history
Local_saveReputationScore(h, st, hist, ref) ==
    LET serverId == h[ref].serverId
        serverHistory == hist[serverId]
    IN  [storage |-> [st EXCEPT ![serverId] = ref],
         history |-> [hist EXCEPT ![serverId] = Append(serverHistory, ref)]]

Local_getReputationScore(st, serverId) == st[serverId]

Local_getReputationHistory(hist, serverId, limit) == Slice(hist[serverId], -limit)

\* mutant of Local_returnsStoredArray: the stored array itself is returned
\* when the limit cuts nothing off
Local_returnsStoredArray_unsliced(hist, serverId, limit) == Len(hist[serverId]) <= limit

\* whether the array getReputationHistory returns is the array object the
\* storage keeps: history.slice(-limit) creates a new array for every limit
Local_returnsStoredArray(hist, serverId, limit) == FALSE

\* JSON.parse(JSON.stringify(x)) of a number: NaN and the infinities become
\* null
JSONNumber(x) == IF x.k \in {"nan", "inf"} THEN null ELSE x

\* JSON.parse(JSON.stringify(score)): a copy of the score
JSONScore(sc) ==
    IF sc = undefined THEN undefined
    ELSE [sc EXCEPT !.overallScore = JSONNumber(@)]

maxHistorySize == 100

\* what localStorage holds before the first save: no item under
\* CURRENT_SCORES_KEY ('{}') and none under HISTORY_PREFIX + serverId ('[]')
LocalStorageEmpty ==
    [scores |-> [s \in Servers |-> undefined], history |-> [s \in Servers |-> <<>>]]

\* mutant of Browser_saveReputationScore: when the history is full the new
\* record is dropped instead of the oldest
Browser_saveReputationScore_dropNewest(ls, sc) ==
    LET entries == Append(ls.history[sc.serverId], JSONScore(sc))
        kept == IF Len(entries) > maxHistorySize
                THEN SubSeq(entries, 1, maxHistorySize)
                ELSE entries
    IN  [scores |-> [ls.scores EXCEPT ![sc.serverId] = JSONScore(sc)],
         history |-> [ls.history EXCEPT ![sc.serverId] = kept]]

\* BrowserLocalStorageAdapter.saveReputationScore(score): the new contents
\* of localStorage
Browser_saveReputationScore(ls, sc) ==
    LET scores == [ls.scores EXCEPT ![sc.serverId] = sc]
        entries == Append(ls.history[sc.serverId], sc)
        kept == IF Len(entries) > maxHistorySize
                THEN SpliceFront(entries, Len(entries) - maxHistorySize)
                ELSE entries
    IN  [scores |-> [s \in Servers |-> JSONScore(scores[s])],
         history |-> [ls.history EXCEPT
                          ![sc.serverId] = [i \in 1..Len(kept) |-> JSONScore(kept[i])]]]

\* scores[serverId] || null
Browser_getReputationScore(ls, serverId) ==
    IF ls.scores[serverId] = undefined THEN null ELSE ls.scores[serverId]

Browser_getReputationHistory(ls, serverId, limit) == Slice(ls.history[serverId], -limit)

\* the parts of the state a specification does not exercise
ScoreIdle ==
    /\ components = [performanceMetrics |-> undefined, verificationDetails |-> undefined,
                     feedbackMetrics |-> undefined, usageMetrics |-> undefined]
    /\ config = [weights |-> [performance |-> Q(2, 5), verification |-> Q(3, 10),
                              feedback |-> Q(1, 5), usage |-> Q(1, 10)],
                 timeDecayDays |-> N(30), minimumReviews |-> N(5)]
    /\ score = undefined
    /\ rescore = undefined

HelperIdle ==
    /\ helperCall = noCall
    /\ helperRecall = noCall

StoreIdle ==
    /\ adapter = "local"
    /\ heap = <<>>
    /\ storage = LocalStorageInit
    /\ history = LocalHistoryInit
    /\ localStorage = LocalStorageEmpty
    /\ saved = [s \in Servers |-> 0]
    /\ saveLog = <<>>
    /\ ret = noRead

ClientIdle ==
    /\ algorithms = [id \in AlgorithmIds |-> undefined]
    /\ requestedIds = {}
    /\ queue = <<>>
    /\ clock = 0
    /\ outcome = noOutcome

----------------------------------------------------------------------------
(* nanda/core/server: NandaServer over an Express application.  A path is
   the sequence of its segments; a layer of the application is a middleware,
   a route or a mounted router. *)

capabilitiesPath == <<"api", "capabilities">>

RouterPaths == {capabilitiesPath, <<"api", "custom">>, <<"api", "analytics">>}

CapabilityNames == {"echo", "sum"}
PluginNames == {"analytics", "logger"}

Middleware(name) == [kind |-> "middleware", name |-> name, method |-> "", path |-> <<>>]
Route(method, path, name) == [kind |-> "route", name |-> name, method |-> method, path |-> path]
Mount(path) == [kind |-> "router", name |-> "router", method |-> "", path |-> path]

notFoundMiddleware == Middleware("notFoundMiddleware")
errorMiddleware == Middleware("errorMiddleware")

\* the fields of a NandaServer after `this.app = express()`
NewServer ==
    [config |-> undefined,
     app |-> <<>>,
     capabilities |-> [n \in CapabilityNames |-> undefined],
     plugins |-> [n \in PluginNames |-> undefined],
     routers |-> [p \in RouterPaths |-> undefined],
     initializeCalls |-> [n \in PluginNames |-> 0]]

\* getRouter(path): the server afterwards; the router returned is
\* routers[path]
getRouter(this, path) ==
    IF this.routers[path] = undefined
    THEN [this EXCEPT !.app = Append(@, Mount(path)), !.routers[path] = [stack |-> <<>>]]
    ELSE this

\* router.get / router.post on the router mounted at `path`
routerAdd(this, path, route) == [this EXCEPT !.routers[path].stack = Append(@, route)]

\* mutant of addCapabilityThrows: only a capability that is the same in
\* every field is refused
addCapabilityThrows_sameObject(this, capability) ==
    this.capabilities[capability.name] = capability

addCapabilityThrows(this, capability) == this.capabilities[capability.name] # undefined

\* addCapability(capability), when it does not throw
addCapability(this, capability) ==
    LET set == [this EXCEPT !.capabilities[capability.name] = capability]
    IN  IF capability.handler
        THEN routerAdd(getRouter(set, capabilitiesPath), capabilitiesPath,
                       Route("POST", <<capability.name>>, capability.name))
        ELSE set

\* plugin.initialize(server): the analytics plugin of the documentation
\* gets a router, adds a tracking middleware to the application and a route
\* to the router; the logger plugin touches nothing
pluginInitialize(this, plugin) ==
    IF plugin.name = "analytics"
    THEN LET mounted == getRouter(this, <<"api", "analytics">>)
             tracked == [mounted EXCEPT !.app = Append(@, Middleware("analyticsTracker"))]
         IN  routerAdd(tracked, <<"api", "analytics">>,
                       Route("GET", <<"stats">>, "analytics"))
    ELSE this

registerPluginThrows(this, plugin) == this.plugins[plugin.name] # undefined

\* registerPlugin(plugin), when it does not throw
registerPlugin(this, plugin) ==
    pluginInitialize([this EXCEPT !.plugins[plugin.name] = plugin,
                                  !.initializeCalls[plugin.name] = @ + 1], plugin)

\* setupMiddleware(), without an apiSpec
setupMiddleware(this) ==
    [this EXCEPT !.app = @ \o <<Middleware("json"), Middleware("urlencoded"),
                                Middleware("morgan"), Middleware("cors"),
                                Middleware("helmet")>>]

\* setupRouters(); production is process.env.NODE_ENV === 'production'
setupRouters(this, production) ==
    [this EXCEPT !.app =
        @ \o <<Route("GET", <<"api">>, "/api")>>
          \o (IF production THEN <<>>
              ELSE <<Route("GET", <<"debug", "info">>, "/debug/info")>>)
          \o <<notFoundMiddleware, errorMiddleware>>]

\* the loops of the constructor over config.capabilities and config.plugins:
\* the server afterwards, and whether a call threw
RECURSIVE addCapabilities(_, _)
addCapabilities(this, caps) ==
    IF caps = <<>> THEN [this |-> this, threw |-> FALSE]
    ELSE IF addCapabilityThrows(this, Head(caps)) THEN [this |-> this, threw |-> TRUE]
    ELSE addCapabilities(addCapability(this, Head(caps)), Tail(caps))

RECURSIVE registerPlugins(_, _)
registerPlugins(this, plugs) ==
    IF plugs = <<>> THEN [this |-> this, threw |-> FALSE]
    ELSE IF registerPluginThrows(this, Head(plugs)) THEN [this |-> this, threw |-> TRUE]
    ELSE registerPlugins(registerPlugin(this, Head(plugs)), Tail(plugs))

\* new NandaServer(cfg)
constructor(cfg) ==
    LET withCapabilities == addCapabilities([NewServer EXCEPT !.config = cfg],
                                            cfg.capabilities)
        withPlugins == registerPlugins(withCapabilities.this, cfg.plugins)
    IN  IF withCapabilities.threw \/ withPlugins.threw
        THEN [this |-> NewServer, threw |-> TRUE]
        ELSE [this |-> setupRouters(setupMiddleware(withPlugins.this), cfg.production),
              threw |-> FALSE]

IsPrefix(p, path) == Len(p) <= Len(path) /\ SubSeq(path, 1, Len(p)) = p

\* the routes of the router mounted at `mount` that match the request
MatchingRoutes(routes, mount, req) ==
    SelectSeq(routes, LAMBDA r : r.method = req.method /\ mount \o r.path = req.path)

\* Express passes the request down the layers in order.  A middleware calls
\* next(); express.json() parses a JSON body on the way; a route whose method
\* and path match answers the request; a mounted router answers it with its
\* first matching route, or passes it on; notFoundMiddleware calls
\* next(error) with status 404, after which only an error handler runs;
\* a request no layer answered is answered by Express's final handler.
RECURSIVE Dispatch(_, _, _, _, _)
Dispatch(layers, rtrs, req, parsed, err) ==
    IF layers = <<>>
    THEN [by |-> "finalhandler", status |-> 404, parsedBody |-> parsed]
    ELSE
      LET layer == Head(layers)
          rest == Tail(layers)
      IN  IF err
          THEN IF layer = errorMiddleware
               THEN [by |-> "errorMiddleware", status |-> 404, parsedBody |-> parsed]
               ELSE Dispatch(rest, rtrs, req, parsed, err)
          ELSE CASE layer = errorMiddleware -> Dispatch(rest, rtrs, req, parsed, err)
                 [] layer = notFoundMiddleware -> Dispatch(rest, rtrs, req, parsed, TRUE)
                 [] layer = Middleware("json") ->
                        Dispatch(rest, rtrs, req, parsed \/ req.json, err)
                 [] layer.kind = "route" /\ layer.method = req.method /\ layer.path = req.path ->
                        [by |-> layer.name, status |-> 200, parsedBody |-> parsed]
                 [] layer.kind = "router" /\ IsPrefix(layer.path, req.path)
                      /\ MatchingRoutes(rtrs[layer.path].stack, layer.path, req) # <<>> ->
                        [by |-> Head(MatchingRoutes(rtrs[layer.path].stack, layer.path, req)).name,
                         status |-> 200, parsedBody |-> parsed]
                 [] OTHER -> Dispatch(rest, rtrs, req, parsed, err)

noResponse == [by |-> "none"]
noError == [by |-> "none"]

\* the calls of start() and stop() the calling code makes: one start and
\* two stops, the second of which may come before the first has finished
Calls == {"start", "stop1", "stop2"}

\* before createServer
ServerIdle ==
    /\ app = NewServer.app
    /\ capabilities = NewServer.capabilities
    /\ plugins = NewServer.plugins
    /\ routers = NewServer.routers
    /\ response = noResponse
    /\ serverConfig = NewServer.config
    /\ initializeCalls = NewServer.initializeCalls
    /\ thrown = noError
    /\ hooks = {}
    /\ server = "undefined"
    /\ listener = "none"
    /\ calls = [c \in Calls |-> "idle"]
    /\ events = <<>>

----------------------------------------------------------------------------
(* Inputs of the scoring algorithm: documented values, boundary values and
   values outside the documented ranges *)

PerformanceMetrics ==
    {undefined} \cup [uptime_percentage : {undefined, Q(999, 10), N(200)},
                      avg_response_time_ms : {undefined, N(0), N(150)},
                      error_rate : {undefined, N(0), Q(1, 100)}]
VerificationDetails ==
    {undefined} \cup [level : {"gold", "silver", "bronze", "none", noLevel}]
FeedbackMetrics ==
    {undefined} \cup [average_rating : {undefined, N(0), Q(24, 5), N(6)},
                      rating_count : {undefined, N(5), N(50)}]
UsageMetrics ==
    {undefined} \cup [total_requests : {undefined, N(-1000)},
                      unique_clients : {undefined, N(500)},
                      longevity_days : {undefined, N(15)}]

Bundles ==
    [performanceMetrics : PerformanceMetrics,
     verificationDetails : VerificationDetails,
     feedbackMetrics : FeedbackMetrics,
     usageMetrics : UsageMetrics]

\* the weights of the tests and examples, weights that sum to 4, and a
\* negative weight
typicalWeights ==
    [performance |-> Q(2, 5), verification |-> Q(3, 10), feedback |-> Q(1, 5), usage |-> Q(1, 10)]
heavyWeights ==
    [performance |-> N(1), verification |-> N(1), feedback |-> N(1), usage |-> N(1)]
negativeWeights ==
    [performance |-> N(-1), verification |-> Q(3, 10), feedback |-> Q(1, 5), usage |-> Q(1, 10)]

Configs ==
    {[weights |-> typicalWeights, timeDecayDays |-> N(30), minimumReviews |-> N(5)],
     [weights |-> typicalWeights, timeDecayDays |-> N(30), minimumReviews |-> N(0)],
     [weights |-> heavyWeights, timeDecayDays |-> N(60), minimumReviews |-> N(10)],
     [weights |-> negativeWeights, timeDecayDays |-> N(30), minimumReviews |-> N(0)]}

----------------------------------------------------------------------------
(* The scoring algorithm applied to one input *)

\* The clock of this specification counts milliseconds, the resolution of
\* new Date().toISOString(): the first call is made at 0, the second call
\* one of these delays later.
Delays == {999, 1000}

InitScore ==
    /\ components \in Bundles
    /\ config \in Configs
    /\ score = undefined
    /\ rescore = undefined
    /\ HelperIdle
    /\ StoreIdle
    /\ ClientIdle
    /\ ServerIdle

Calculate ==
    /\ score = undefined
    /\ \E serverId \in ScoredServers :
           score' = calculateScore(config, serverId, components, 0)
    /\ UNCHANGED <<components, config, rescore>>
    /\ UNCHANGED helperVars
    /\ UNCHANGED serverVars
    /\ UNCHANGED lifecycleVars
    /\ UNCHANGED storeVars
    /\ UNCHANGED clientVars

\* the same algorithm is called again with the same serverId and bundle
CalculateAgain ==
    /\ score # undefined
    /\ rescore = undefined
    /\ \E delay \in Delays :
           rescore' = calculateScore(config, score.serverId, components,
                                     score.lastUpdated + delay)
    /\ UNCHANGED <<components, config, score>>
    /\ UNCHANGED helperVars
    /\ UNCHANGED serverVars
    /\ UNCHANGED lifecycleVars
    /\ UNCHANGED storeVars
    /\ UNCHANGED clientVars

NextScore ==
    \/ Calculate
    \/ CalculateAgain

SpecScore == InitScore /\ [][NextScore]_vars

----------------------------------------------------------------------------
(* The numeric helpers called as in algorithm.test.ts: a helper is called
   once, and applyTimeDecay and normalizeScore a second time with another
   timestamp or value *)

DecayValues == {N(100), Q(1, 2), N(0), N(-100)}
HalfLives == {N(30), N(1), N(0), N(-1)}

\* the ages of the decayed values, in halves of a half-life (in ticks when
\* the half-life is 0); -1 is a timestamp in the future
AgeSteps == {-1, 0, 1, 2, 3, 6}

TimestampsFor(halfLifeDays, now) ==
    {now - k * (IF halfLifeDays.n = 0 THEN 1 ELSE Abs(halfLifeDays.n)) : k \in AgeSteps}

NormalizeValues == {NInf, N(-5), N(0), N(5), Q(15, 2), N(10), N(20), PInf}
NormalizeRanges ==
    {[min |-> N(0), max |-> N(10)], [min |-> N(-5), max |-> N(20)],
     [min |-> N(5), max |-> Q(15, 2)], [min |-> N(5), max |-> N(5)],
     [min |-> N(0), max |-> N(0)]}

Ns(ints) == [i \in 1..Len(ints) |-> N(ints[i])]

OutlierArrays ==
    {Ns(<<2, 3, 3, 4, 4, 4, 5, 5, 20>>), Ns(<<1, 10, 10, 11, 11, 12, 12, 13>>),
     Ns(<<>>), Ns(<<5>>), Ns(<<5, 5>>), Ns(<<5, 5, 5>>), <<Q(1, 10), Q(1, 10), Q(1, 10)>>,
     Ns(<<0, 10>>), Ns(<<0, 0, 1>>), Ns(<<10, 0, 0, 0, 0>>), Ns(<<-7, 0, 7, 0>>)}
OutlierThresholds == {undefined, N(2), Q(13, 10), N(1), Q(1, 2), N(0), N(-1)}

InitHelpers ==
    /\ ScoreIdle
    /\ HelperIdle
    /\ StoreIdle
    /\ ClientIdle
    /\ ServerIdle

ApplyTimeDecay(value, timestamp, halfLifeDays) ==
    /\ helperCall = noCall
    /\ helperCall' = [fn |-> "applyTimeDecay", value |-> value, timestamp |-> timestamp,
                      halfLifeDays |-> halfLifeDays, now |-> clock,
                      outcome |-> "returned",
                      result |-> applyTimeDecay(value, timestamp, halfLifeDays, clock)]
    /\ UNCHANGED helperRecall
    /\ UNCHANGED scoreVars
    /\ UNCHANGED storeVars
    /\ UNCHANGED clientVars
    /\ UNCHANGED serverVars
    /\ UNCHANGED lifecycleVars

\* the same value is decayed again from another timestamp
ApplyTimeDecayAgain ==
    /\ helperCall.fn = "applyTimeDecay"
    /\ helperRecall = noCall
    /\ \E timestamp \in TimestampsFor(helperCall.halfLifeDays, clock) :
           /\ timestamp # helperCall.timestamp
           /\ helperRecall' =
                  [helperCall EXCEPT
                      !.timestamp = timestamp,
                      !.result = applyTimeDecay(helperCall.value, timestamp,
                                                helperCall.halfLifeDays, clock)]
    /\ UNCHANGED helperCall
    /\ UNCHANGED scoreVars
    /\ UNCHANGED storeVars
    /\ UNCHANGED clientVars
    /\ UNCHANGED serverVars
    /\ UNCHANGED lifecycleVars

NormalizeScore(value, range) ==
    /\ helperCall = noCall
    /\ helperCall' = [fn |-> "normalizeScore", value |-> value, min |-> range.min,
                      max |-> range.max, outcome |-> "returned",
                      result |-> normalizeScore(value, range.min, range.max)]
    /\ UNCHANGED helperRecall
    /\ UNCHANGED scoreVars
    /\ UNCHANGED storeVars
    /\ UNCHANGED clientVars
    /\ UNCHANGED serverVars
    /\ UNCHANGED lifecycleVars

\* another value is normalized to the same range
NormalizeScoreAgain(value) ==
    /\ helperCall.fn = "normalizeScore"
    /\ helperRecall = noCall
    /\ value # helperCall.value
    /\ helperRecall' =
           [helperCall EXCEPT
               !.value = value,
               !.result = normalizeScore(value, helperCall.min, helperCall.max)]
    /\ UNCHANGED helperCall
    /\ UNCHANGED scoreVars
    /\ UNCHANGED storeVars
    /\ UNCHANGED clientVars
    /\ UNCHANGED serverVars
    /\ UNCHANGED lifecycleVars

DetectOutliers(values, zScoreThreshold) ==
    /\ helperCall = noCall
    /\ helperCall' = [fn |-> "detectOutliers", values |-> values,
                      zScoreThreshold |-> zScoreThreshold, outcome |-> "returned",
                      result |-> detectOutliers(values, zScoreThreshold)]
    /\ UNCHANGED helperRecall
    /\ UNCHANGED scoreVars
    /\ UNCHANGED storeVars
    /\ UNCHANGED clientVars
    /\ UNCHANGED serverVars
    /\ UNCHANGED lifecycleVars

NextHelpers ==
    \/ \E value \in DecayValues, halfLifeDays \in HalfLives :
           \E timestamp \in TimestampsFor(halfLifeDays, clock) :
               ApplyTimeDecay(value, timestamp, halfLifeDays)
    \/ ApplyTimeDecayAgain
    \/ \E value \in NormalizeValues, range \in NormalizeRanges : NormalizeScore(value, range)
    \/ \E value \in NormalizeValues : NormalizeScoreAgain(value)
    \/ \E values \in OutlierArrays, zScoreThreshold \in OutlierThresholds :
           DetectOutliers(values, zScoreThreshold)

SpecHelpers == InitHelpers /\ [][NextHelpers]_vars

----------------------------------------------------------------------------
(* The storage adapters driven as in storage.test.ts: scores are saved one
   after the other and read back *)

MaxLocalSaves == 11
MaxBrowserSaves == 102
MaxLimit == 2

\* the k-th score saved for a subject (storage.test.ts: overallScore 80 + i,
\* later scores carrying later timestamps)
testScore(serverId, k) ==
    [serverId |-> serverId, overallScore |-> N(80 + k), lastUpdated |-> k,
     algorithm |-> "test-algorithm"]

\* the argument `limit`: omitted, or a number
LimitArgs ==
    {[given |-> FALSE, limit |-> 0]} \cup {[given |-> TRUE, limit |-> l] : l \in 0..MaxLimit}

\* limit: number = 10
effectiveLimit(arg) == IF arg.given THEN arg.limit ELSE defaultLimit

TotalSaved == saved["s1"] + saved["s2"]

InitStore ==
    /\ ScoreIdle
    /\ HelperIdle
    /\ adapter \in {"local", "browser"}
    /\ heap = <<>>
    /\ storage = LocalStorageInit
    /\ history = LocalHistoryInit
    /\ localStorage = LocalStorageEmpty
    /\ saved = [s \in Servers |-> 0]
    /\ saveLog = <<>>
    /\ ret = noRead
    /\ ClientIdle
    /\ ServerIdle

LocalSave(serverId) ==
    /\ adapter = "local"
    /\ TotalSaved < MaxLocalSaves
    /\ LET obj == testScore(serverId, saved[serverId])
           ref == Len(heap) + 1
           new == Local_saveReputationScore(Append(heap, obj), storage, history, ref)
       IN  /\ heap' = Append(heap, obj)
           /\ storage' = new.storage
           /\ history' = new.history
           /\ saveLog' = Append(saveLog, [serverId |-> serverId, ref |-> ref, score |-> obj,
                                        by |-> "caller", others |-> 0])
    /\ saved' = [saved EXCEPT ![serverId] = @ + 1]
    /\ ret' = noRead
    /\ UNCHANGED <<adapter, localStorage>>
    /\ UNCHANGED scoreVars
    /\ UNCHANGED helperVars
    /\ UNCHANGED serverVars
    /\ UNCHANGED lifecycleVars
    /\ UNCHANGED clientVars

LocalGetScore(serverId) ==
    /\ adapter = "local"
    /\ LET ref == Local_getReputationScore(storage, serverId)
       IN  ret' = [op |-> "getReputationScore", serverId |-> serverId,
                   ref |-> ref, value |-> IF ref = 0 THEN null ELSE heap[ref]]
    /\ UNCHANGED <<adapter, heap, storage, history, localStorage, saved, saveLog>>
    /\ UNCHANGED scoreVars
    /\ UNCHANGED helperVars
    /\ UNCHANGED serverVars
    /\ UNCHANGED lifecycleVars
    /\ UNCHANGED clientVars

LocalGetHistory(serverId, arg) ==
    /\ adapter = "local"
    /\ LET refs == Local_getReputationHistory(history, serverId, effectiveLimit(arg))
       IN  ret' = [op |-> "getReputationHistory", serverId |-> serverId, arg |-> arg,
                   refs |-> refs, values |-> [i \in 1..Len(refs) |-> heap[refs[i]]],
                   shared |-> Local_returnsStoredArray(history, serverId,
                                                       effectiveLimit(arg))]
    /\ UNCHANGED <<adapter, heap, storage, history, localStorage, saved, saveLog>>
    /\ UNCHANGED scoreVars
    /\ UNCHANGED helperVars
    /\ UNCHANGED serverVars
    /\ UNCHANGED lifecycleVars
    /\ UNCHANGED clientVars

BrowserSave(serverId) ==
    /\ adapter = "browser"
    /\ TotalSaved < MaxBrowserSaves
    /\ localStorage' =
           Browser_saveReputationScore(localStorage, testScore(serverId, saved[serverId]))
    /\ saved' = [saved EXCEPT ![serverId] = @ + 1]
    /\ ret' = noRead
    /\ UNCHANGED <<adapter, heap, storage, history, saveLog>>
    /\ UNCHANGED scoreVars
    /\ UNCHANGED helperVars
    /\ UNCHANGED serverVars
    /\ UNCHANGED lifecycleVars
    /\ UNCHANGED clientVars

BrowserGetScore(serverId) ==
    /\ adapter = "browser"
    /\ ret' = [op |-> "getReputationScore", serverId |-> serverId, ref |-> 0,
               value |-> Browser_getReputationScore(localStorage, serverId)]
    /\ UNCHANGED <<adapter, heap, storage, history, localStorage, saved, saveLog>>
    /\ UNCHANGED scoreVars
    /\ UNCHANGED helperVars
    /\ UNCHANGED serverVars
    /\ UNCHANGED lifecycleVars
    /\ UNCHANGED clientVars

BrowserGetHistory(serverId, arg) ==
    /\ adapter = "browser"
    /\ ret' = [op |-> "getReputationHistory", serverId |-> serverId, arg |-> arg,
               refs |-> <<>>,
               values |-> Browser_getReputationHistory(localStorage, serverId,
                                                       effectiveLimit(arg)),
               shared |-> FALSE]
    /\ UNCHANGED <<adapter, heap, storage, history, localStorage, saved, saveLog>>
    /\ UNCHANGED scoreVars
    /\ UNCHANGED helperVars
    /\ UNCHANGED serverVars
    /\ UNCHANGED lifecycleVars
    /\ UNCHANGED clientVars

\* the calling code removes the last element of the array that
\* getReputationHistory returned: returned.pop()
ChangeReturnedHistory ==
    /\ ret.op = "getReputationHistory"
    /\ ret.values # <<>>
    /\ ret' = [ret EXCEPT !.op = "changed",
                          !.refs = SubSeq(@, 1, Len(@) - 1),
                          !.values = SubSeq(@, 1, Len(@) - 1)]
    /\ history' = IF ret.shared
                  THEN [history EXCEPT ![ret.serverId] = SubSeq(@, 1, Len(@) - 1)]
                  ELSE history
    /\ UNCHANGED <<adapter, heap, storage, localStorage, saved, saveLog>>
    /\ UNCHANGED scoreVars
    /\ UNCHANGED helperVars
    /\ UNCHANGED serverVars
    /\ UNCHANGED lifecycleVars
    /\ UNCHANGED clientVars

NextStore ==
    \/ \E serverId \in Servers : LocalSave(serverId)
    \/ \E serverId \in Servers : LocalGetScore(serverId)
    \/ \E serverId \in Servers, arg \in LimitArgs : LocalGetHistory(serverId, arg)
    \/ \E serverId \in Servers : BrowserSave(serverId)
    \/ \E serverId \in Servers : BrowserGetScore(serverId)
    \/ \E serverId \in Servers, arg \in LimitArgs : BrowserGetHistory(serverId, arg)
    \/ ChangeReturnedHistory

SpecStore == InitStore /\ [][NextStore]_vars

----------------------------------------------------------------------------
(* ReputationClient over its default storage, a LocalReputationStorage.
   The calling code may start calls, save scores of its own, read scores
   back and change the objects it holds at any point between two
   microtasks; every `await` of calculateReputationScore puts the rest of
   the call at the end of the microtask queue. *)

MaxObjs == 2
MaxCalls == 2
MaxClock == 1

\* what ReputationDataClient.getReputationData resolves to
mockReputationData ==
    [performanceMetrics |-> [uptime_percentage |-> Q(999, 10),
                             avg_response_time_ms |-> N(150),
                             error_rate |-> Q(1, 100)],
     verificationDetails |-> [level |-> "gold"],
     feedbackMetrics |-> [average_rating |-> Q(24, 5), rating_count |-> N(120)],
     usageMetrics |-> [total_requests |-> N(50000), unique_clients |-> N(500),
                       longevity_days |-> N(120)]]

\* the configuration of the registered weighted algorithm
clientConfig ==
    [weights |-> typicalWeights, timeDecayDays |-> N(30), minimumReviews |-> N(5)]

\* the id of every algorithm createWeightedAlgorithm returns
weightedAlgorithmId == "weighted-score-v1"

\* createWeightedAlgorithm(cfg): the id of the algorithm, and the
\* configuration its calculateScore closes over, of which the code reads
\* weights, timeDecayDays and minimumReviews
createWeightedAlgorithm(cfg) ==
    [id |-> weightedAlgorithmId,
     config |-> [weights |-> cfg.weights, timeDecayDays |-> cfg.timeDecayDays,
                 minimumReviews |-> cfg.minimumReviews]]

\* ReputationClient.registerAlgorithm(algorithm): the new algorithms map
registerAlgorithm(algs, algorithm) == [algs EXCEPT ![algorithm.id] = algorithm]

\* mutant of getAlgorithm: an unknown id falls back to a default algorithm
getAlgorithm_orDefault(algs, algorithmId) ==
    IF algs[algorithmId] = undefined THEN createWeightedAlgorithm(clientConfig)
    ELSE algs[algorithmId]

\* ReputationClient.getAlgorithm(algorithmId)
getAlgorithm(algs, algorithmId) == algs[algorithmId]

\* a score object the calling code builds itself
callerScore(serverId, lastUpdated) ==
    [serverId |-> serverId, overallScore |-> N(80), lastUpdated |-> lastUpdated,
     algorithm |-> "test-algorithm"]

Init ==
    /\ ScoreIdle
    /\ HelperIdle
    /\ StoreIdle
    /\ ClientIdle
    /\ ServerIdle

\* registerAlgorithm(createWeightedAlgorithm({id, ...clientConfig}))
RegisterAlgorithm(id) ==
    /\ algorithms' =
           registerAlgorithm(algorithms,
               createWeightedAlgorithm([id |-> id, weights |-> clientConfig.weights,
                                        timeDecayDays |-> clientConfig.timeDecayDays,
                                        minimumReviews |-> clientConfig.minimumReviews]))
    /\ requestedIds' = requestedIds \cup {id}
    /\ UNCHANGED <<queue, clock, outcome>>
    /\ UNCHANGED storeVars
    /\ UNCHANGED scoreVars
    /\ UNCHANGED helperVars
    /\ UNCHANGED serverVars
    /\ UNCHANGED lifecycleVars

\* calculateReputationScore(serverId, algorithmId) up to its first await:
\* the lookup of the algorithm, which throws when the id is not registered,
\* and the call of getReputationData.  At most MaxCalls calls are in flight,
\* and no call is started whose score object would exceed MaxObjs.
CallCalculate(serverId, algorithmId) ==
    /\ Len(queue) < MaxCalls
    /\ IF getAlgorithm(algorithms, algorithmId) = undefined
       THEN queue' = queue
       ELSE /\ Len(heap) + Cardinality({i \in 1..Len(queue) : queue[i].pc = "calculate"}) < MaxObjs
            /\ queue' = Append(queue, [pc |-> "calculate", serverId |-> serverId,
                                    algorithm |-> getAlgorithm(algorithms, algorithmId),
                                    ref |-> 0])
    /\ UNCHANGED <<algorithms, requestedIds, clock, outcome>>
    /\ UNCHANGED storeVars
    /\ UNCHANGED scoreVars
    /\ UNCHANGED helperVars
    /\ UNCHANGED serverVars
    /\ UNCHANGED lifecycleVars

\* the call resumes with the components: algorithm.calculateScore builds the
\* score object, stamped with the time of the calculation
StepCalculate ==
    /\ queue # <<>>
    /\ queue[1].pc = "calculate"
    /\ Len(heap) < MaxObjs
    /\ LET f == queue[1]
           obj == calculateScore(f.algorithm.config, f.serverId, mockReputationData, clock)
       IN  /\ heap' = Append(heap, obj)
           /\ queue' = Append(Tail(queue), [f EXCEPT !.pc = "save", !.ref = Len(heap) + 1])
    /\ UNCHANGED <<adapter, storage, history, localStorage, saved, saveLog, ret>>
    /\ UNCHANGED <<algorithms, requestedIds, clock, outcome>>
    /\ UNCHANGED scoreVars
    /\ UNCHANGED helperVars
    /\ UNCHANGED serverVars
    /\ UNCHANGED lifecycleVars

\* the call resumes with the score: this.storage.saveReputationScore(score)
StepSave ==
    /\ queue # <<>>
    /\ queue[1].pc = "save"
    /\ LET f == queue[1]
           new == Local_saveReputationScore(heap, storage, history, f.ref)
       IN  /\ storage' = new.storage
           /\ history' = new.history
           /\ saveLog' = Append(saveLog, [serverId |-> heap[f.ref].serverId, ref |-> f.ref,
                                          score |-> heap[f.ref], by |-> "client",
                                          others |-> Len(queue) - 1])
           /\ queue' = Append(Tail(queue), [f EXCEPT !.pc = "return"])
    /\ UNCHANGED <<adapter, heap, localStorage, saved, ret>>
    /\ UNCHANGED <<algorithms, requestedIds, clock, outcome>>
    /\ UNCHANGED scoreVars
    /\ UNCHANGED helperVars
    /\ UNCHANGED serverVars
    /\ UNCHANGED lifecycleVars

\* the call resumes after the save and returns the score to the calling code
StepReturn ==
    /\ queue # <<>>
    /\ queue[1].pc = "return"
    /\ queue' = Tail(queue)
    /\ UNCHANGED <<algorithms, requestedIds, clock, outcome>>
    /\ UNCHANGED storeVars
    /\ UNCHANGED scoreVars
    /\ UNCHANGED helperVars
    /\ UNCHANGED serverVars
    /\ UNCHANGED lifecycleVars

\* the calling code builds a score and saves it: storage.saveReputationScore(score)
SaveNewScore(serverId, lastUpdated) ==
    /\ Len(heap) < MaxObjs
    /\ lastUpdated <= clock
    /\ LET obj == callerScore(serverId, lastUpdated)
           ref == Len(heap) + 1
           new == Local_saveReputationScore(Append(heap, obj), storage, history, ref)
       IN  /\ heap' = Append(heap, obj)
           /\ storage' = new.storage
           /\ history' = new.history
           /\ saveLog' = Append(saveLog, [serverId |-> serverId, ref |-> ref, score |-> obj,
                                          by |-> "caller", others |-> Len(queue)])
    /\ UNCHANGED <<adapter, localStorage, saved, ret>>
    /\ UNCHANGED <<algorithms, requestedIds, queue, clock, outcome>>
    /\ UNCHANGED scoreVars
    /\ UNCHANGED helperVars
    /\ UNCHANGED serverVars
    /\ UNCHANGED lifecycleVars

\* the objects the calling code can reach: it passed them to
\* saveReputationScore, or it receives them, once they are saved, from
\* calculateReputationScore, getReputationScore and getReputationHistory,
\* which all hand out the stored object itself
Reachable == {saveLog[i].ref : i \in 1..Len(saveLog)}

\* the calling code assigns to a field of a score object it can reach
Mutate(ref) ==
    /\ ref \in Reachable
    /\ heap[ref].overallScore # N(0)
    /\ heap' = [heap EXCEPT ![ref].overallScore = N(0)]
    /\ UNCHANGED <<adapter, storage, history, localStorage, saved, saveLog, ret>>
    /\ UNCHANGED clientVars
    /\ UNCHANGED scoreVars
    /\ UNCHANGED helperVars
    /\ UNCHANGED serverVars
    /\ UNCHANGED lifecycleVars

\* time passes
Tick ==
    /\ clock < MaxClock
    /\ clock' = clock + 1
    /\ UNCHANGED <<algorithms, requestedIds, queue, outcome>>
    /\ UNCHANGED storeVars
    /\ UNCHANGED scoreVars
    /\ UNCHANGED helperVars
    /\ UNCHANGED serverVars
    /\ UNCHANGED lifecycleVars

\* the calling code registers the weighted algorithm under the id the
\* algorithm carries
Next ==
    \/ RegisterAlgorithm(weightedAlgorithmId)
    \/ \E serverId \in Servers, algorithmId \in AlgorithmIds :
           CallCalculate(serverId, algorithmId)
    \/ StepCalculate
    \/ StepSave
    \/ StepReturn
    \/ \E serverId \in Servers, lastUpdated \in 0..MaxClock :
           SaveNewScore(serverId, lastUpdated)
    \/ \E ref \in 1..MaxObjs : Mutate(ref)
    \/ Tick

Spec == Init /\ [][Next]_vars

----------------------------------------------------------------------------
(* ReputationClient used by one caller that awaits every call before it
   makes the next: calculateReputationScore runs from its first line to its
   return, then the caller may read the score back *)

\* await client.calculateReputationScore(serverId, algorithmId).  `fetched`
\* tells whether this.data.getReputationData was called.
CalculateReputationScore(serverId, algorithmId) ==
    LET algorithm == getAlgorithm(algorithms, algorithmId)
    IN  IF algorithm = undefined
        THEN /\ outcome' = [result |-> "threw", serverId |-> serverId,
                            algorithmId |-> algorithmId, fetched |-> FALSE, ref |-> 0]
             /\ UNCHANGED storeVars
        ELSE /\ Len(heap) < MaxObjs
             /\ LET components_ == mockReputationData
                    obj == calculateScore(algorithm.config, serverId, components_, clock)
                    ref == Len(heap) + 1
                    new == Local_saveReputationScore(Append(heap, obj), storage, history, ref)
                IN  /\ heap' = Append(heap, obj)
                    /\ storage' = new.storage
                    /\ history' = new.history
                    /\ saveLog' = Append(saveLog, [serverId |-> serverId, ref |-> ref,
                                                   score |-> obj, by |-> "client",
                                                   others |-> 0])
                    /\ outcome' = [result |-> "returned", serverId |-> serverId,
                                   algorithmId |-> algorithmId, fetched |-> TRUE,
                                   ref |-> ref]
             /\ ret' = noRead
             /\ UNCHANGED <<adapter, localStorage, saved>>

AwaitCalculate(serverId, algorithmId) ==
    /\ CalculateReputationScore(serverId, algorithmId)
    /\ UNCHANGED <<algorithms, requestedIds, queue, clock>>
    /\ UNCHANGED scoreVars
    /\ UNCHANGED helperVars
    /\ UNCHANGED serverVars
    /\ UNCHANGED lifecycleVars

NextCalls ==
    \/ \E id \in AlgorithmIds : RegisterAlgorithm(id)
    \/ \E serverId \in Servers, algorithmId \in AlgorithmIds :
           AwaitCalculate(serverId, algorithmId)
    \/ \E serverId \in Servers : LocalGetScore(serverId)
    \/ Tick

SpecCalls == Init /\ [][NextCalls]_vars

----------------------------------------------------------------------------
(* NandaServer: createServer(config), then the calling code adds
   capabilities, plugins, routers and routes, and requests arrive *)

\* the configurations: no capability, the echo capability of the Quick
\* Start, and the same capability listed twice
ServerConfigs ==
    [capabilities : {<<>>, <<[name |-> "echo", handler |-> TRUE]>>,
                     <<[name |-> "echo", handler |-> TRUE],
                       [name |-> "echo", handler |-> TRUE]>>},
     plugins : {<<>>, <<[name |-> "analytics"]>>},
     production : BOOLEAN]

Requests ==
    {[method |-> "GET", path |-> <<"api">>, json |-> FALSE],
     [method |-> "GET", path |-> <<"debug", "info">>, json |-> FALSE],
     [method |-> "POST", path |-> <<"api", "capabilities", "echo">>, json |-> TRUE],
     [method |-> "POST", path |-> <<"api", "capabilities", "sum">>, json |-> TRUE],
     [method |-> "GET", path |-> <<"api", "custom", "hello">>, json |-> FALSE],
     [method |-> "GET", path |-> <<"api", "analytics", "stats">>, json |-> FALSE],
     [method |-> "GET", path |-> <<"missing">>, json |-> FALSE]}

Created == app # <<>>

This ==
    [config |-> serverConfig, app |-> app, capabilities |-> capabilities,
     plugins |-> plugins, routers |-> routers, initializeCalls |-> initializeCalls]

\* the fields of the server become those of `this`; the last answer is
\* forgotten
Becomes(this) ==
    /\ app' = this.app
    /\ capabilities' = this.capabilities
    /\ plugins' = this.plugins
    /\ routers' = this.routers
    /\ serverConfig' = this.config
    /\ initializeCalls' = this.initializeCalls
    /\ response' = noResponse
    /\ thrown' = noError

\* the call throws: `throw new Error(...)` before anything was changed; the
\* last answer is forgotten
Throws(by, name) ==
    /\ thrown' = [by |-> by, name |-> name]
    /\ response' = noResponse
    /\ UNCHANGED <<app, capabilities, plugins, routers, serverConfig, initializeCalls>>

InitServer ==
    /\ ScoreIdle
    /\ HelperIdle
    /\ StoreIdle
    /\ ClientIdle
    /\ ServerIdle

\* createServer(cfg); when the constructor throws there is no server
CreateServer(cfg) ==
    /\ ~Created
    /\ LET new == constructor(cfg)
       IN  IF new.threw THEN Throws("createServer", "") ELSE Becomes(new.this)
    /\ UNCHANGED scoreVars
    /\ UNCHANGED helperVars
    /\ UNCHANGED storeVars
    /\ UNCHANGED clientVars
    /\ UNCHANGED lifecycleVars

\* server.addCapability(capability) after createServer has returned
AddCapability(capability) ==
    /\ Created
    /\ IF addCapabilityThrows(This, capability)
       THEN Throws("addCapability", capability.name)
       ELSE Becomes(addCapability(This, capability))
    /\ UNCHANGED scoreVars
    /\ UNCHANGED helperVars
    /\ UNCHANGED storeVars
    /\ UNCHANGED clientVars
    /\ UNCHANGED lifecycleVars

\* server.registerPlugin(plugin) after createServer has returned
RegisterPlugin(plugin) ==
    /\ Created
    /\ IF registerPluginThrows(This, plugin)
       THEN Throws("registerPlugin", plugin.name)
       ELSE Becomes(registerPlugin(This, plugin))
    /\ UNCHANGED scoreVars
    /\ UNCHANGED helperVars
    /\ UNCHANGED storeVars
    /\ UNCHANGED clientVars
    /\ UNCHANGED lifecycleVars

\* server.getRouter(path) after createServer has returned
GetRouter(path) ==
    /\ Created
    /\ Becomes(getRouter(This, path))
    /\ UNCHANGED scoreVars
    /\ UNCHANGED helperVars
    /\ UNCHANGED storeVars
    /\ UNCHANGED clientVars
    /\ UNCHANGED lifecycleVars

\* router.get('/hello', handler) on a router the calling code got from
\* getRouter(path)
RouterGet(path) ==
    /\ Created
    /\ routers[path] # undefined
    /\ MatchingRoutes(routers[path].stack, path,
                      [method |-> "GET", path |-> path \o <<"hello">>]) = <<>>
    /\ Becomes(routerAdd(This, path, Route("GET", <<"hello">>, "hello")))
    /\ UNCHANGED scoreVars
    /\ UNCHANGED helperVars
    /\ UNCHANGED storeVars
    /\ UNCHANGED clientVars
    /\ UNCHANGED lifecycleVars

\* a request arrives and is answered
Request(req) ==
    /\ Created
    /\ response' = [req |-> req] @@ Dispatch(app, routers, req, FALSE, FALSE)
    /\ thrown' = noError
    /\ UNCHANGED <<app, capabilities, plugins, routers, serverConfig, initializeCalls>>
    /\ UNCHANGED scoreVars
    /\ UNCHANGED helperVars
    /\ UNCHANGED storeVars
    /\ UNCHANGED clientVars
    /\ UNCHANGED lifecycleVars

NextServer ==
    \/ \E cfg \in ServerConfigs : CreateServer(cfg)
    \/ \E capability \in [name : CapabilityNames, handler : BOOLEAN] :
           AddCapability(capability)
    \/ \E plugin \in [name : PluginNames] : RegisterPlugin(plugin)
    \/ \E path \in RouterPaths : GetRouter(path)
    \/ \E path \in RouterPaths : RouterGet(path)
    \/ \E req \in Requests : Request(req)

SpecServer == InitServer /\ [][NextServer]_vars

----------------------------------------------------------------------------
(* NandaServer.start and NandaServer.stop with lifecycle hooks.  A hook may
   be asynchronous: it is called in one step and completes in a later one,
   and every await gives other calls the chance to run in between. *)

HookNames == {"beforeStart", "afterStart", "beforeStop", "afterStop"}

\* an entry of the log: what happened, in which call, and whether the
\* http.Server was listening at that time
Event(what, call) == [what |-> what, call |-> call, listener |-> listener]

\* the call moves to `pc`, and the events are appended to the log
Moves(call, pc, happened) ==
    /\ calls' = [calls EXCEPT ![call] = pc]
    /\ events' = events \o happened

UnchangedByLifecycle ==
    /\ UNCHANGED scoreVars
    /\ UNCHANGED helperVars
    /\ UNCHANGED storeVars
    /\ UNCHANGED clientVars
    /\ UNCHANGED serverVars

\* server.setHooks(hooks): { ...this.hooks, ...hooks }
SetHooks(given) ==
    /\ Created
    /\ hooks' = hooks \cup given
    /\ UNCHANGED <<server, listener, calls, events>>
    /\ UNCHANGED serverVars
    /\ UNCHANGED scoreVars
    /\ UNCHANGED helperVars
    /\ UNCHANGED storeVars
    /\ UNCHANGED clientVars

\* this.server = this.app.listen(serverPort, callback)
Listen(happened) ==
    /\ server' = "Server"
    /\ listener' = "listening"
    /\ Moves("start", "listen", happened \o <<Event("listen", "start")>>)

\* server.start(): up to the first await, or up to app.listen when there
\* is no beforeStart hook
Start ==
    /\ Created
    /\ calls["start"] = "idle"
    /\ IF "beforeStart" \in hooks
       THEN /\ Moves("start", "beforeStart", <<Event("beforeStart", "start")>>)
            /\ UNCHANGED <<server, listener>>
       ELSE Listen(<<>>)
    /\ UNCHANGED hooks
    /\ UnchangedByLifecycle

\* the beforeStart hook completes and start() goes on to app.listen
BeforeStartDone ==
    /\ calls["start"] = "beforeStart"
    /\ Listen(<<Event("beforeStart.done", "start")>>)
    /\ UNCHANGED hooks
    /\ UnchangedByLifecycle

\* the callback given to app.listen
Listening ==
    /\ calls["start"] = "listen"
    /\ IF "afterStart" \in hooks
       THEN Moves("start", "afterStart", <<Event("afterStart", "start")>>)
       ELSE Moves("start", "resolved", <<Event("resolved", "start")>>)
    /\ UNCHANGED <<hooks, server, listener>>
    /\ UnchangedByLifecycle

\* the afterStart hook completes: .then(() => resolve())
AfterStartDone ==
    /\ calls["start"] = "afterStart"
    /\ Moves("start", "resolved",
             <<Event("afterStart.done", "start"), Event("resolved", "start")>>)
    /\ UNCHANGED <<hooks, server, listener>>
    /\ UnchangedByLifecycle

\* the promise stop() returns after its awaits: server.close(callback) when
\* this.server is an object with a close method, a rejection otherwise.
\* close() on a server that is listening stops it and calls back when it
\* has closed; on a server that is no longer listening it calls back with
\* an error.
Close(call, happened) ==
    IF server # "Server"
    THEN /\ Moves(call, "rejected", happened \o <<Event("rejected", call)>>)
         /\ UNCHANGED listener
    ELSE IF listener = "listening"
    THEN /\ Moves(call, "closing", happened \o <<Event("close", call)>>)
         /\ listener' = "closing"
    ELSE /\ Moves(call, "closingError", happened \o <<Event("close", call)>>)
         /\ UNCHANGED listener

\* server.stop(): up to the first await, or up to server.close when there
\* is no beforeStop hook
Stop(call) ==
    /\ Created
    /\ calls[call] = "idle"
    /\ call = "stop2" => calls["stop1"] # "idle"
    /\ IF server \in {"undefined", "null"}
       THEN /\ Moves(call, "resolved", <<Event("resolved", call)>>)
            /\ UNCHANGED listener
       ELSE IF "beforeStop" \in hooks
       THEN /\ Moves(call, "beforeStop", <<Event("beforeStop", call)>>)
            /\ UNCHANGED listener
       ELSE Close(call, <<>>)
    /\ UNCHANGED <<hooks, server>>
    /\ UnchangedByLifecycle

\* the beforeStop hook completes and stop() goes on to server.close
BeforeStopDone(call) ==
    /\ calls[call] = "beforeStop"
    /\ Close(call, <<Event("beforeStop.done", call)>>)
    /\ UNCHANGED <<hooks, server>>
    /\ UnchangedByLifecycle

\* the callback given to server.close, called without an error
Closed(call) ==
    /\ calls[call] = "closing"
    /\ listener' = "closed"
    /\ IF "afterStop" \in hooks
       THEN /\ Moves(call, "afterStop",
                     <<Event("closed", call), Event("afterStop", call)>>)
            /\ UNCHANGED server
       ELSE /\ Moves(call, "resolved",
                     <<Event("closed", call), Event("resolved", call)>>)
            /\ server' = "null"
    /\ UNCHANGED hooks
    /\ UnchangedByLifecycle

\* the callback given to server.close, called with an error: reject(err)
CloseFailed(call) ==
    /\ calls[call] = "closingError"
    /\ listener = "closed"
    /\ Moves(call, "rejected", <<Event("rejected", call)>>)
    /\ UNCHANGED <<hooks, server, listener>>
    /\ UnchangedByLifecycle

\* the afterStop hook completes: this.server = null; resolve()
AfterStopDone(call) ==
    /\ calls[call] = "afterStop"
    /\ server' = "null"
    /\ Moves(call, "resolved",
             <<Event("afterStop.done", call), Event("resolved", call)>>)
    /\ UNCHANGED <<hooks, listener>>
    /\ UnchangedByLifecycle

\* the servers whose lifecycle is followed: the Quick Start's configurations
LifecycleConfigs == {cfg \in ServerConfigs : cfg.plugins = <<>> /\ ~cfg.production}

NextLifecycle ==
    \/ \E cfg \in LifecycleConfigs : CreateServer(cfg)
    \/ \E given \in SUBSET HookNames : SetHooks(given)
    \/ Start
    \/ BeforeStartDone
    \/ Listening
    \/ AfterStartDone
    \/ \E call \in Calls \ {"start"} :
           \/ Stop(call)
           \/ BeforeStopDone(call)
           \/ Closed(call)
           \/ CloseFailed(call)
           \/ AfterStopDone(call)

SpecLifecycle == InitServer /\ [][NextLifecycle]_vars

----------------------------------------------------------------------------
(* Claims about the scoring algorithm, checked under SpecScore *)

Calculated == score # undefined

emptyBundle ==
    [performanceMetrics |-> undefined, verificationDetails |-> undefined,
     feedbackMetrics |-> undefined, usageMetrics |-> undefined]

\* C1: whatever the bundle and the weights (weights that do not sum to 1,
\* negative weights), the overallScore of the record calculateScore returns
\* is a number in [0,100].
C1_OverallScoreInRange ==
    Calculated => InRange(score.overallScore, 0, 100)

\* a weighted sum above 100 (weights summing to 4) was clamped to 100
C1_Witness ==
    /\ Calculated
    /\ config.weights = heavyWeights
    /\ components.verificationDetails = [level |-> "gold"]
    /\ components.performanceMetrics # undefined
    /\ score.overallScore = N(100)

\* C2: for every bundle, field values outside the documented ranges
\* included, each of the four category scores of the record is in [0,100].
C2_CategoriesInRange ==
    Calculated =>
        /\ InRange(score.categories.performance, 0, 100)
        /\ InRange(score.categories.verification, 0, 100)
        /\ InRange(score.categories.feedback, 0, 100)
        /\ InRange(score.categories.usage, 0, 100)

\* C3: for every bundle and every minimumReviews >= 0 (0 included, feedback
\* present or absent) the confidence.level of the record is a number in
\* [0,100].
C3_ConfidenceLevelInRange ==
    Calculated => InRange(score.confidence.level, 0, 100)

ScoreFields ==
    {"serverId", "overallScore", "categories", "confidence", "lastUpdated",
     "dataPoints", "algorithm"}

\* C4: for every bundle with any subset of the four categories absent (the
\* empty bundle included) calculateScore returns a complete record, and the
\* score of each absent category is its default: performance 50,
\* verification 0, feedback 50, usage 50.
C4_AbsentCategoryDefaults ==
    Calculated =>
        /\ DOMAIN score = ScoreFields
        /\ DOMAIN score.categories = {"performance", "verification", "feedback", "usage"}
        /\ components.performanceMetrics = undefined => score.categories.performance = N(50)
        /\ components.verificationDetails = undefined => score.categories.verification = N(0)
        /\ components.feedbackMetrics = undefined => score.categories.feedback = N(50)
        /\ components.usageMetrics = undefined => score.categories.usage = N(50)

\* the empty bundle was scored
C4_Witness ==
    /\ Calculated
    /\ components = emptyBundle
    /\ score.categories =
           [performance |-> N(50), verification |-> N(0), feedback |-> N(50), usage |-> N(50)]

Recalculated == score # undefined /\ rescore # undefined

\* C11: two calculateScore calls with the same serverId, bundle and
\* configuration, made less than one second apart, return overallScore
\* values that differ by less than 1 point.
C11_DecaySensitivity ==
    (Recalculated /\ Abs(rescore.lastUpdated - score.lastUpdated) < 1000) =>
        /\ JLt(JSub(rescore.overallScore, score.overallScore), N(1))
        /\ JLt(JSub(score.overallScore, rescore.overallScore), N(1))

\* a bundle with all four categories was scored twice, 999 ms apart
C11_Witness ==
    /\ Recalculated
    /\ rescore.lastUpdated = score.lastUpdated + 999
    /\ components.performanceMetrics # undefined
    /\ components.verificationDetails = [level |-> "silver"]
    /\ components.feedbackMetrics # undefined
    /\ components.usageMetrics # undefined
    /\ rescore.overallScore = score.overallScore
    /\ JLt(N(0), score.overallScore)

\* C18: minimumReviews is the number of reviews that gives full sample-size
\* confidence: with rating_count >= minimumReviews the factor sample_size of
\* the record is 100, and below minimumReviews it is reduced in proportion,
\* rating_count / minimumReviews * 100.
C18_MinimumReviewsFullConfidence ==
    (/\ Calculated
     /\ components.feedbackMetrics # undefined
     /\ components.feedbackMetrics.rating_count # undefined) =>
        LET count == components.feedbackMetrics.rating_count
            sample_size == score.confidence.factors.sample_size
        IN  IF JLe(config.minimumReviews, count)
            THEN sample_size = N(100)
            ELSE sample_size = JMul(JDiv(count, config.minimumReviews), N(100))

IsInteger(x) == IsFin(x) /\ x.d = 1

Clamp(x, lo, hi) == MathMin(N(hi), MathMax(N(lo), x))

\* wP*P + wV*V + wF*F + wU*U over the unrounded sub-scores
WeightedSum(weights, P, V, F, U) ==
    JAdd(JAdd(JAdd(JMul(P, weights.performance), JMul(V, weights.verification)),
              JMul(F, weights.feedback)),
         JMul(U, weights.usage))

\* C23: the overallScore of the record is round(clamp(wP*P + wV*V + wF*F +
\* wU*U, 0, 100)) over the unrounded category sub-scores and the configured
\* weights, each category value of the record is round() of its own
\* sub-score, all five are integers, and the record is returned whatever the
\* weights sum to.
C23_RoundedWeightedSum ==
    Calculated =>
        LET P == calculatePerformanceScore(components)
            V == calculateVerificationScore(components)
            F == calculateFeedbackScore(components)
            U == calculateUsageScore(components)
        IN  /\ DOMAIN score = ScoreFields
            /\ score.overallScore =
                   MathRound(Clamp(WeightedSum(config.weights, P, V, F, U), 0, 100))
            /\ score.categories.performance = MathRound(P)
            /\ score.categories.verification = MathRound(V)
            /\ score.categories.feedback = MathRound(F)
            /\ score.categories.usage = MathRound(U)
            /\ IsInteger(score.overallScore)
            /\ \A c \in DOMAIN score.categories : IsInteger(score.categories[c])

\* weights that sum to 4 were applied to a performance sub-score that is not
\* an integer, and the sum was neither below 0 nor above 100
C23_Witness ==
    /\ Calculated
    /\ config.weights = heavyWeights
    /\ ~IsInteger(calculatePerformanceScore(components))
    /\ JLt(N(0), score.overallScore)
    /\ JLt(score.overallScore, N(100))
    /\ score.categories.performance = MathRound(calculatePerformanceScore(components))

\* C24: when performanceMetrics is present, the performance sub-score is
\* 0.5*uptime_percentage + 0.3*clamp(100 - avg_response_time_ms/10, 0, 100)
\* + 0.2*clamp(100 - error_rate*100, 0, 100) for every present value of the
\* fields, 0 included; the response-time term or the error-rate term is 50
\* only when that field is absent.
C24_PerformanceSubScore ==
    (/\ Calculated
     /\ components.performanceMetrics # undefined
     /\ components.performanceMetrics.uptime_percentage # undefined) =>
        LET metrics == components.performanceMetrics
            responseTerm ==
                IF metrics.avg_response_time_ms = undefined THEN N(50)
                ELSE Clamp(JSub(N(100), JDiv(metrics.avg_response_time_ms, N(10))), 0, 100)
            errorTerm ==
                IF metrics.error_rate = undefined THEN N(50)
                ELSE Clamp(JSub(N(100), JMul(metrics.error_rate, N(100))), 0, 100)
            expected ==
                JAdd(JAdd(JMul(HALF, metrics.uptime_percentage), JMul(W03, responseTerm)),
                     JMul(W02, errorTerm))
        IN  /\ calculatePerformanceScore(components) = expected
            /\ score.categories.performance = MathRound(expected)

\* C25: when usageMetrics is present, the usage sub-score is
\* 0.3*min(100, total_requests/1000*100) + 0.4*min(100, unique_clients/100*100)
\* + 0.3*min(100, longevity_days/30*100), a missing sub-metric contributing 0
\* to its term; a usage object without any of the three fields scores 0, an
\* absent usage category scores 50.
C25_UsageSubScore ==
    Calculated =>
        LET metrics == components.usageMetrics
            Term(value, full) ==
                IF value = undefined THEN N(0)
                ELSE MathMin(N(100), JMul(JDiv(value, N(full)), N(100)))
            expected ==
                IF metrics = undefined THEN N(50)
                ELSE JAdd(JAdd(JMul(W03, Term(metrics.total_requests, 1000)),
                               JMul(W04, Term(metrics.unique_clients, 100))),
                          JMul(W03, Term(metrics.longevity_days, 30)))
        IN  /\ calculateUsageScore(components) = expected
            /\ score.categories.usage = MathRound(expected)
            /\ (metrics = [total_requests |-> undefined, unique_clients |-> undefined,
                           longevity_days |-> undefined])
                   => score.categories.usage = N(0)

\* a usage object with only longevity_days, 15 of 30 days, was scored
C25_Witness ==
    /\ Calculated
    /\ components.usageMetrics =
           [total_requests |-> undefined, unique_clients |-> undefined,
            longevity_days |-> N(15)]
    /\ score.categories.usage = N(15)

\* C26: the feedback sub-score is (average_rating - 1)/4*100 when
\* average_rating is present and not zero, and 50 when the feedback category
\* is absent or average_rating is absent or zero; for average_rating 4.8 the
\* feedback category of the record is 95.
C26_FeedbackSubScore ==
    Calculated =>
        LET metrics == components.feedbackMetrics
            expected ==
                IF metrics = undefined THEN N(50)
                ELSE IF metrics.average_rating \in {undefined, N(0)} THEN N(50)
                ELSE JMul(JDiv(JSub(metrics.average_rating, N(1)), N(4)), N(100))
        IN  /\ calculateFeedbackScore(components) = expected
            /\ score.categories.feedback = MathRound(expected)
            /\ (metrics # undefined /\ metrics.average_rating = Q(24, 5))
                   => score.categories.feedback = N(95)

\* a rating of 4.8 was scored
C26_Witness ==
    /\ Calculated
    /\ components.feedbackMetrics # undefined
    /\ components.feedbackMetrics.average_rating = Q(24, 5)
    /\ score.categories.feedback = N(95)

\* the factors and the level calculateConfidence is said to return for the
\* bundle, with idealReviews = minimumReviews * 5
ExpectedConfidence ==
    LET feedback == components.feedbackMetrics
        details == components.verificationDetails
        idealReviews == JMul(config.minimumReviews, N(5))
        sample_size ==
            IF feedback = undefined THEN N(0)
            ELSE MathMin(N(100),
                         JMul(JDiv(OrElse(feedback.rating_count, N(0)), idealReviews), N(100)))
        verification_level ==
            IF details = undefined THEN N(0)
            ELSE CASE details.level = "gold" -> N(100)
                   [] details.level = "silver" -> N(75)
                   [] details.level = "bronze" -> N(50)
                   [] OTHER -> N(0)
        factors == [sample_size |-> sample_size, consistency |-> N(70),
                    diversity |-> N(60), recency |-> N(80),
                    verification_level |-> verification_level]
    IN  [level |-> MathRound(JAdd(JAdd(JAdd(JAdd(JMul(W03, sample_size), JMul(W02, N(70))),
                                            JMul(W01, N(60))),
                                       JMul(W02, N(80))),
                                  JMul(W02, verification_level))),
         factors |-> factors]

\* C27: calculateConfidence returns sample_size = min(100,
\* rating_count/idealReviews*100), 0 when feedback is absent,
\* verification_level 100, 75, 50 for gold, silver, bronze and 0 otherwise,
\* consistency 70, diversity 60, recency 80, and level = round(0.3*sample_size
\* + 0.2*consistency + 0.1*diversity + 0.2*recency + 0.2*verification_level);
\* the verification_level factor equals the unrounded verification sub-score
\* of the same bundle.
C27_ConfidenceFactors ==
    Calculated =>
        /\ score.confidence = ExpectedConfidence
        /\ score.confidence.factors.verification_level =
               calculateVerificationScore(components)

----------------------------------------------------------------------------
(* Claims about the numeric helpers, checked under SpecHelpers *)

CallsOf(fn) == {c \in {helperCall, helperRecall} : c.fn = fn}

\* the age of the timestamp of a call of applyTimeDecay, in ticks
AgeTicks(c) == c.now - c.timestamp

\* v halved n times
RECURSIVE Halved(_, _)
Halved(v, n) == IF n = 0 THEN v ELSE JMul(Halved(v, n - 1), HALF)

\* C12: for every value v, every half-life h > 0 and every integer n >= 0,
\* applyTimeDecay of a value recorded exactly n*h days before the call
\* returns v * 0.5^n (v/2 at one half-life, v/8 at three), and for v > 0 the
\* result strictly decreases as the age of the timestamp increases.
C12_TimeDecayHalving ==
    /\ \A c \in CallsOf("applyTimeDecay") :
           JLt(N(0), c.halfLifeDays) =>
               \A n \in 0..3 :
                   AgeTicks(c) * c.halfLifeDays.d = n * c.halfLifeDays.n * ticksPerDay
                       => c.result = Plain(Halved(c.value, n))
    /\ (/\ helperRecall.fn = "applyTimeDecay"
        /\ JLt(N(0), helperCall.halfLifeDays)
        /\ JLt(N(0), helperCall.value)) =>
           /\ AgeTicks(helperCall) < AgeTicks(helperRecall)
                  => ScaledLt(helperRecall.result, helperCall.result)
           /\ AgeTicks(helperRecall) < AgeTicks(helperCall)
                  => ScaledLt(helperCall.result, helperRecall.result)

\* 100 was decayed with a half-life of 30 days at an age of one half-life
\* and at an age of three
C12_Witness ==
    /\ helperCall.fn = "applyTimeDecay"
    /\ helperRecall.fn = "applyTimeDecay"
    /\ helperCall.value = N(100)
    /\ helperCall.halfLifeDays = N(30)
    /\ AgeTicks(helperCall) = 30 * ticksPerDay
    /\ AgeTicks(helperRecall) = 90 * ticksPerDay
    /\ helperCall.result = Plain(N(50))
    /\ helperRecall.result = Plain(Q(25, 2))

\* C13: applyTimeDecay called with halfLifeDays <= 0 ends in a validation
\* error and returns no number computed from that half-life.
C13_NonPositiveHalfLifeRejected ==
    \A c \in CallsOf("applyTimeDecay") :
        JLe(c.halfLifeDays, N(0)) => c.outcome = "threw"

\* C14: for min < max and every x, normalizeScore(x, min, max) is in [0,100],
\* is 0 for x <= min and 100 for x >= max, is (x - min)/(max - min)*100 in
\* between, and is monotonic non-decreasing in x.
C14_NormalizeScore ==
    /\ \A c \in CallsOf("normalizeScore") :
           JLt(c.min, c.max) =>
               /\ InRange(c.result, 0, 100)
               /\ JLe(c.value, c.min) => c.result = N(0)
               /\ JLe(c.max, c.value) => c.result = N(100)
               /\ (JLt(c.min, c.value) /\ JLt(c.value, c.max)) =>
                      c.result = JMul(JDiv(JSub(c.value, c.min), JSub(c.max, c.min)), N(100))
    /\ (helperRecall.fn = "normalizeScore" /\ JLt(helperCall.min, helperCall.max)) =>
           /\ JLe(helperCall.value, helperRecall.value)
                  => JLe(helperCall.result, helperRecall.result)
           /\ JLe(helperRecall.value, helperCall.value)
                  => JLe(helperRecall.result, helperCall.result)

\* a value inside the range and a value above it were normalized
C14_Witness ==
    /\ helperCall.fn = "normalizeScore"
    /\ helperRecall.fn = "normalizeScore"
    /\ helperCall.min = N(-5)
    /\ helperCall.max = N(20)
    /\ helperCall.value = N(5)
    /\ helperCall.result = N(40)
    /\ helperRecall.value = PInf
    /\ helperRecall.result = N(100)

\* C15: with min = max normalizeScore does not divide by zero: it returns a
\* number in [0,100] or ends in a configuration error, and never returns NaN
\* or an infinity.
C15_NormalizeDegenerateRange ==
    \A c \in CallsOf("normalizeScore") :
        c.min = c.max => (c.outcome = "threw" \/ InRange(c.result, 0, 100))

PopulationMean(values) == JDiv(Sum(values), N(Len(values)))

PopulationVariance(values) ==
    LET mu == PopulationMean(values)
    IN  JDiv(Sum([i \in 1..Len(values) |->
                     JMul(JSub(values[i], mu), JSub(values[i], mu))]),
             N(Len(values)))

ThresholdOf(c) ==
    IF c.zScoreThreshold = undefined THEN Q(5, 2) ELSE c.zScoreThreshold

\* C16: for an array of at least two values with a non-zero population
\* standard deviation and a threshold z > 0, detectOutliers returns, in
\* ascending order, exactly the indices i with |values[i] - mean| / stdDev > z
\* (population mean and standard deviation); index 8 for
\* [2,3,3,4,4,4,5,5,20] and index 0 for [1,10,10,11,11,12,12,13] with z = 2.
C16_OutliersByZScore ==
    \A c \in CallsOf("detectOutliers") :
        LET z == ThresholdOf(c)
            n == Len(c.values)
            mu == PopulationMean(c.values)
            sigma2 == PopulationVariance(c.values)
            returned == {c.result[j] : j \in 1..Len(c.result)}
        IN  (n >= 2 /\ sigma2 # N(0) /\ JLt(N(0), z)) =>
                /\ \A j \in 1..Len(c.result) :
                       j < Len(c.result) => c.result[j] < c.result[j + 1]
                /\ returned \subseteq 0..(n - 1)
                /\ \A i \in 0..(n - 1) :
                       i \in returned <=>
                           JLt(JMul(JMul(z, z), sigma2),
                               JMul(JSub(c.values[i + 1], mu), JSub(c.values[i + 1], mu)))
                /\ (c.values = Ns(<<2, 3, 3, 4, 4, 4, 5, 5, 20>>) /\ z = N(2))
                       => 8 \in returned
                /\ (c.values = Ns(<<1, 10, 10, 11, 11, 12, 12, 13>>) /\ z = N(2))
                       => 0 \in returned

\* the high outlier of the test array was found
C16_Witness ==
    /\ helperCall.fn = "detectOutliers"
    /\ helperCall.values = Ns(<<2, 3, 3, 4, 4, 4, 5, 5, 20>>)
    /\ helperCall.zScoreThreshold = N(2)
    /\ helperCall.result = <<8>>

----------------------------------------------------------------------------
(* Claims about the storage adapters, checked under SpecStore *)

\* the saves logged for one subject, in order
RECURSIVE SavesOf(_, _)
SavesOf(log, serverId) ==
    IF log = <<>> THEN <<>>
    ELSE LET rest == SavesOf(SubSeq(log, 1, Len(log) - 1), serverId)
             last == log[Len(log)]
         IN  IF last.serverId = serverId THEN Append(rest, last) ELSE rest

Min(a, b) == IF a < b THEN a ELSE b

\* C5: after any sequence of saves on a LocalReputationStorage,
\* getReputationScore(id) returns the most recently saved score whose
\* serverId is id, equal to it in all fields, and null when no score with
\* that serverId was ever saved.
C5_LastWriteWins ==
    (adapter = "local" /\ ret.op = "getReputationScore") =>
        LET mine == SavesOf(saveLog, ret.serverId)
        IN  IF mine = <<>>
            THEN ret.ref = 0 /\ ret.value = null
            ELSE ret.ref = mine[Len(mine)].ref /\ ret.value = mine[Len(mine)].score

\* the current score was read back after the subject's score was overwritten
\* twice, another subject having been saved in between
C5_Witness ==
    /\ adapter = "local"
    /\ ret.op = "getReputationScore"
    /\ ret.serverId = "s1"
    /\ saved["s1"] = 3
    /\ saved["s2"] = 1
    /\ saveLog[Len(saveLog)].serverId = "s2"
    /\ ret.value = testScore("s1", 2)

\* C6: for a subject with n saved scores and every limit >= 0 (0 and
\* limit > n included) getReputationHistory(id, limit) returns exactly the
\* min(limit, n) most recently saved scores of the subject, oldest first,
\* never more than limit scores; with limit omitted it uses 10.
C6_HistoryLimit ==
    (adapter = "local" /\ ret.op = "getReputationHistory") =>
        LET mine == SavesOf(saveLog, ret.serverId)
            n == Len(mine)
            limit == IF ret.arg.given THEN ret.arg.limit ELSE 10
            m == Min(limit, n)
        IN  /\ Len(ret.refs) = m
            /\ Len(ret.refs) <= limit
            /\ \A i \in 1..Len(ret.refs) :
                   i <= m => /\ ret.refs[i] = mine[n - m + i].ref
                             /\ ret.values[i] = mine[n - m + i].score

\* old with one record added at its end
AppendedOne(old, new) ==
    /\ Len(new) = Len(old) + 1
    /\ SubSeq(new, 1, Len(old)) = old

\* a full history with its oldest record dropped and one record added at its end
ShiftedOne(old, new) ==
    /\ Len(old) = maxHistorySize
    /\ Len(new) = maxHistorySize
    /\ SubSeq(new, 1, maxHistorySize - 1) = SubSeq(old, 2, maxHistorySize)

LocalHistoryStep(s, grows) ==
    IF saved'[s] = saved[s] + 1 /\ adapter = "local"
    THEN /\ grows
         /\ heap'[history'[s][Len(history'[s])]] = testScore(s, saved[s])
    ELSE history'[s] = history[s]

BrowserHistoryStep(s, grows) ==
    IF saved'[s] = saved[s] + 1 /\ adapter = "browser"
    THEN /\ grows
         /\ localStorage'.history[s][Len(localStorage'.history[s])] = testScore(s, saved[s])
    ELSE localStorage'.history[s] = localStorage.history[s]

\* C7 as stated: in both adapters every save appends exactly one record at
\* the end of the subject's history and no step removes, replaces or
\* reorders a record of a history, however many scores were saved.
C7_AppendOnly ==
    [][\A s \in Servers :
          /\ LocalHistoryStep(s, AppendedOne(history[s], history'[s]))
          /\ BrowserHistoryStep(s, AppendedOne(localStorage.history[s],
                                               localStorage'.history[s]))]_vars

\* C7 amended: LocalReputationStorage is append-only; in
\* BrowserLocalStorageAdapter a save appends exactly one record at the end
\* and, once the history holds maxHistorySize (100) records, drops the oldest
\* one; no record is replaced or reordered, and no other operation changes
\* a history.
C7_AppendOnlyUpToMaxHistorySize ==
    [][\A s \in Servers :
          /\ LocalHistoryStep(s, AppendedOne(history[s], history'[s]))
          /\ BrowserHistoryStep(s,
                 \/ AppendedOne(localStorage.history[s], localStorage'.history[s])
                 \/ ShiftedOne(localStorage.history[s], localStorage'.history[s]))]_vars

\* the browser history is full and has dropped its first records
C7_Witness ==
    /\ adapter = "browser"
    /\ saved["s1"] > maxHistorySize + 1
    /\ Len(localStorage.history["s1"]) = maxHistorySize
    /\ localStorage.history["s1"][1] = testScore("s1", saved["s1"] - maxHistorySize)

\* what the storage in use holds for a subject: its current score and its
\* history, with the fields of the scores
StoredFor(s) ==
    IF adapter = "local"
    THEN [current |-> IF storage[s] = 0 THEN null ELSE heap[storage[s]],
          history |-> [i \in 1..Len(history[s]) |-> heap[history[s][i]]]]
    ELSE [current |-> localStorage.scores[s], history |-> localStorage.history[s]]

\* the step is a saveReputationScore of a score of subject a
SavedA(a) == saved'[a] = saved[a] + 1

\* the step saves nothing: it is a getReputationScore, a
\* getReputationHistory, or a change of the array that was returned
ReadOrChangedReturned == saved' = saved

\* C30: saveReputationScore for a subject A leaves the current score and the
\* history of every other subject B unchanged; getReputationScore and
\* getReputationHistory never change any stored state, and changing the
\* array getReputationHistory returned does not change the stored history.
C30_StorageFrame ==
    [][/\ \A a \in Servers :
            SavedA(a) => \A b \in Servers \ {a} : StoredFor(b)' = StoredFor(b)
       /\ ReadOrChangedReturned =>
              /\ \A b \in Servers : StoredFor(b)' = StoredFor(b)
              /\ UNCHANGED <<storage, history, localStorage>>]_vars

\* the whole history of a subject was read from LocalReputationStorage and
\* its last element removed from the returned array, another subject having
\* been saved last
C30_Witness ==
    /\ adapter = "local"
    /\ ret.op = "changed"
    /\ saved["s1"] = 2
    /\ saved["s2"] = 1
    /\ ret.serverId = "s1"
    /\ Len(ret.refs) = 1
    /\ Len(history["s1"]) = 2
    /\ saveLog[Len(saveLog)].serverId = "s2"

----------------------------------------------------------------------------
(* Claims about ReputationClient and its storage, checked under Spec *)

Refs(entries) == [i \in 1..Len(entries) |-> entries[i].ref]

Count(seq, x) == Cardinality({i \in 1..Len(seq) : seq[i] = x})

\* C8 as stated: in every reachable state the lastUpdated timestamps of
\* consecutive records of a subject's history are non-decreasing.
C8_HistoryOrderedByLastUpdated ==
    \A s \in Servers :
        \A i \in 1..Len(history[s]) :
            i < Len(history[s]) =>
                heap[history[s][i]].lastUpdated <= heap[history[s][i + 1]].lastUpdated

\* C8 amended: a subject's history is in save order, whatever the
\* timestamps of the saved records; the records saved by
\* calculateReputationScore calls carry, in that order, non-decreasing
\* lastUpdated stamps under every interleaving of the calls.
C8_HistoryInSaveOrder ==
    \A s \in Servers :
        LET mine == SavesOf(saveLog, s)
        IN  /\ history[s] = Refs(mine)
            /\ \A i, j \in 1..Len(mine) :
                   (i < j /\ mine[i].by = "client" /\ mine[j].by = "client")
                       => mine[i].score.lastUpdated <= mine[j].score.lastUpdated

\* two concurrent calls for one subject calculated at different times and
\* both saved
C8_Witness ==
    /\ Len(history["s1"]) = 2
    /\ \A i \in 1..Len(saveLog) : saveLog[i].by = "client" /\ saveLog[i].serverId = "s1"
    /\ Len(saveLog) = 2
    /\ saveLog[1].others = 1
    /\ saveLog[1].score.lastUpdated < saveLog[2].score.lastUpdated

\* C9: once a score has been saved, the record held as the current score and
\* the history entry never change in any field, also when the calling code
\* later changes the object it passed to saveReputationScore or an object
\* returned by getReputationScore or getReputationHistory.
C9_SavedScoresNeverChange ==
    \A i \in 1..Len(saveLog) : heap[saveLog[i].ref] = saveLog[i].score

PendingSave == {queue[i].ref : i \in {j \in 1..Len(queue) : queue[j].pc = "save"}}

\* C10: under every interleaving of saveReputationScore and
\* calculateReputationScore calls every computed score appears exactly once
\* in its subject's history, as soon as its save has run, and after all calls
\* have completed the current score is the score saved last, the last record
\* of the history.
C10_NoLostAppend ==
    /\ \A r \in 1..Len(heap), s \in Servers :
           Count(history[s], r) =
               IF r \in PendingSave \/ s # heap[r].serverId THEN 0 ELSE 1
    /\ queue = <<>> =>
           \A s \in Servers :
               LET mine == SavesOf(saveLog, s)
               IN  IF mine = <<>>
                   THEN storage[s] = 0 /\ history[s] = <<>>
                   ELSE /\ storage[s] = mine[Len(mine)].ref
                        /\ storage[s] = history[s][Len(history[s])]

\* two calls for one subject overlapped, both have completed
C10_Witness ==
    /\ queue = <<>>
    /\ Len(saveLog) = 2
    /\ \A i \in 1..2 : saveLog[i].by = "client" /\ saveLog[i].serverId = "s1"
    /\ saveLog[1].others = 1
    /\ history["s1"] = <<1, 2>>
    /\ storage["s1"] = 2

----------------------------------------------------------------------------
(* Claims about awaited ReputationClient calls, checked under SpecCalls *)

\* the read that followed the last call returned the object the call returned
ReadsBackReturnedScore ==
    (/\ outcome.result = "returned"
     /\ ret.op = "getReputationScore"
     /\ ret.serverId = outcome.serverId)
    => (ret.ref = outcome.ref /\ ret.value = heap[outcome.ref])

\* C19: an algorithm created by createWeightedAlgorithm with an id X in its
\* configuration and passed to registerAlgorithm is registered under X:
\* getAlgorithm(X) returns it, calculateReputationScore(serverId, X) finds it,
\* and algorithms created with different ids are all registered.
C19_RegisteredUnderConfiguredId ==
    \A id \in requestedIds :
        /\ getAlgorithm(algorithms, id) # undefined
        /\ getAlgorithm(algorithms, id).id = id

\* C28: calculateReputationScore with an algorithm id that is not registered
\* fails with an error and has no effect: no reputation data is fetched,
\* nothing is saved, and the current score and history of every subject are
\* unchanged.  With a registered id it fetches the data, calculates, saves
\* the score and then returns it, so that a following
\* getReputationScore(serverId) returns the returned score.
C28_UnknownAlgorithmHasNoEffect ==
    /\ []ReadsBackReturnedScore
    /\ [][\A serverId \in Servers, algorithmId \in AlgorithmIds :
             AwaitCalculate(serverId, algorithmId) =>
                 IF algorithms[algorithmId] = undefined
                 THEN /\ outcome'.result = "threw"
                      /\ ~outcome'.fetched
                      /\ UNCHANGED <<heap, storage, history, localStorage, saveLog>>
                 ELSE /\ outcome'.result = "returned"
                      /\ outcome'.fetched
                      /\ outcome'.ref \notin DOMAIN heap
                      /\ heap'[outcome'.ref].serverId = serverId
                      /\ Local_getReputationScore(storage', serverId) = outcome'.ref
                      /\ saveLog' = Append(saveLog, saveLog'[Len(saveLog')])
                      /\ saveLog'[Len(saveLog')].ref = outcome'.ref]_vars

\* a call with an unregistered id failed after an earlier call for the same
\* subject had saved a score
C28_Witness ==
    /\ outcome.result = "threw"
    /\ algorithms[outcome.algorithmId] = undefined
    /\ storage[outcome.serverId] # 0
    /\ history[outcome.serverId] # <<>>

----------------------------------------------------------------------------
(* Claims about NandaServer, checked under SpecServer *)

\* a route of a mounted router, or of a capability with a handler, matches
\* the request
RouteRegistered(req) ==
    \E p \in RouterPaths :
        routers[p] # undefined /\ MatchingRoutes(routers[p].stack, p, req) # <<>>

\* C20: after any sequence of addCapability, getRouter and registerPlugin
\* calls, during construction or after createServer has returned, the
\* not-found handler and the error handler are the last layers of the
\* application; so a request that matches a route of a router obtained from
\* getRouter, or a capability added with addCapability, is answered by that
\* route and not with 404 by the not-found handler.
C20_NotFoundAndErrorHandlersLast ==
    Created =>
        /\ app[Len(app) - 1] = notFoundMiddleware
        /\ app[Len(app)] = errorMiddleware
        /\ (response # noResponse /\ RouteRegistered(response.req)) =>
               (response.status = 200 /\ response.by # "errorMiddleware")

\* the capability was passed, with a handler, in the configuration given to
\* createServer
ConfiguredWithHandler(name) ==
    /\ Created
    /\ \E i \in DOMAIN serverConfig.capabilities :
           serverConfig.capabilities[i].name = name /\ serverConfig.capabilities[i].handler

CapabilityPost(name) ==
    [method |-> "POST", path |-> capabilitiesPath \o <<name>>, json |-> TRUE]

\* C21: for every capability with a handler passed in the createServer
\* configuration, a POST to /api/capabilities/<name> with a JSON body is
\* answered by the capability's handler, and it has passed the JSON
\* body-parsing middleware before the handler runs, so that the handler reads
\* the parsed body.
C21_BodyParsedBeforeCapabilityHandler ==
    \A name \in CapabilityNames :
        (/\ ConfiguredWithHandler(name)
         /\ response # noResponse
         /\ response.req = CapabilityPost(name))
        => (/\ response.by = name
            /\ response.status = 200
            /\ response.parsedBody)

\* the routes registered for the capability `name`
CapabilityRoutes(name) ==
    IF routers[capabilitiesPath] = undefined THEN <<>>
    ELSE SelectSeq(routers[capabilitiesPath].stack, LAMBDA r : r.name = name)

RegisteredAtMostOnce ==
    /\ \A name \in CapabilityNames :
           Len(CapabilityRoutes(name)) =
               IF capabilities[name] # undefined /\ capabilities[name].handler THEN 1 ELSE 0
    /\ \A name \in PluginNames :
           initializeCalls[name] = IF plugins[name] # undefined THEN 1 ELSE 0

\* C29: addCapability with the name of an existing capability throws and
\* leaves the capability map and the registered routes as they were;
\* registerPlugin with the name of an existing plugin throws without calling
\* that plugin's initialize; so each capability name and each plugin name is
\* registered at most once and each registered plugin's initialize has been
\* invoked exactly once.
C29_DuplicateNamesRejected ==
    /\ []RegisteredAtMostOnce
    /\ [][/\ \A capability \in [name : CapabilityNames, handler : BOOLEAN] :
               (AddCapability(capability) /\ capabilities[capability.name] # undefined) =>
                   /\ thrown' = [by |-> "addCapability", name |-> capability.name]
                   /\ UNCHANGED <<app, capabilities, routers, plugins, initializeCalls>>
          /\ \A plugin \in [name : PluginNames] :
               (RegisterPlugin(plugin) /\ plugins[plugin.name] # undefined) =>
                   /\ thrown' = [by |-> "registerPlugin", name |-> plugin.name]
                   /\ UNCHANGED <<app, capabilities, routers, plugins, initializeCalls>>]_vars

\* a capability was added again under its name, with another handler field,
\* and was refused
C29_Witness ==
    /\ thrown.by = "addCapability"
    /\ capabilities[thrown.name] = [name |-> thrown.name, handler |-> TRUE]
    /\ Len(CapabilityRoutes(thrown.name)) = 1
    /\ plugins["analytics"] # undefined
    /\ initializeCalls["analytics"] = 1

----------------------------------------------------------------------------
(* Claims about the lifecycle of NandaServer, checked under SpecLifecycle *)

\* the positions in the log where `what` happened
Happened(what) == {i \in DOMAIN events : events[i].what = what}

\* every `later` of a call comes after an `earlier` of the same call
Follows(later, earlier) ==
    \A j \in Happened(later) :
        \E i \in Happened(earlier) : i < j /\ events[i].call = events[j].call

\* whenever `hook` ran in a call, `later` of that call comes after the hook
\* has completed
CompletesBefore(hook, done, later) ==
    \A i \in Happened(hook) :
        \A j \in Happened(later) :
            events[j].call = events[i].call =>
                \E k \in Happened(done) : i < k /\ k < j /\ events[k].call = events[i].call

StartInOrder ==
    /\ CompletesBefore("beforeStart", "beforeStart.done", "listen")
    /\ Follows("afterStart", "listen")
    /\ CompletesBefore("afterStart", "afterStart.done", "resolved")

StopInOrder ==
    /\ CompletesBefore("beforeStop", "beforeStop.done", "close")
    /\ Follows("closed", "close")
    /\ Follows("afterStop", "closed")
    /\ CompletesBefore("afterStop", "afterStop.done", "resolved")

\* stop() runs no hook on a server that was never started or has closed
NoHookWhenNotRunning ==
    \A i \in Happened("beforeStop") : events[i].listener \notin {"none", "closed"}

\* the server is started once and stopped once, so each hook runs at most once
HooksAtMostOnce ==
    \A hook \in HookNames : Cardinality(Happened(hook)) <= 1

\* C22: start() runs beforeStart to completion before the server begins
\* listening and resolves only after afterStart has completed; stop() on a
\* running server runs beforeStop to completion, then closes the server, then
\* runs afterStop, and only then resolves; stop() on a server that is not
\* running runs no hook; and each hook runs at most once per start/stop of
\* the server, also when stop() is called again before an earlier stop() has
\* finished.
C22_LifecycleHooksInOrderAtMostOnce ==
    /\ StartInOrder
    /\ StopInOrder
    /\ NoHookWhenNotRunning
    /\ HooksAtMostOnce

====
